---- MODULE Spec2Model ----
(***************************************************************************)
(* AEGES: behavioural risk analysis, containment, provider fallback and    *)
(* multi-provider consensus.                                               *)
(*                                                                         *)
(* The parts of the repository that are modelled, each with its own        *)
(* specification:                                                          *)
(*   Spec           AEGESSystem (aeges_mock_implementation.js)             *)
(*   SpecFallback   GrokAEGESIntegration, sequential fallback              *)
(*   SpecParallel   GrokAEGESIntegration, parallel consensus               *)
(*   SpecConsensus  MultiAIAEGESAnalyzer                                   *)
(*   SpecLifecycle  AEGESSystem with status queries and recoveries         *)
(*   SpecConcurrent AEGESSystem with concurrent calls and subscribers      *)
(*   SpecValidation GrokAEGESIntegration.analyzeTransactionWithAI          *)
(*   SpecParallelFair  parallel consensus whose calls all settle           *)
(*   SpecConfig     ConfigurationManager (enhanced_env_config.js)          *)
(*   SpecAssessment the functions of AEGESBehavioralAnalyzer               *)
(*   SpecRiskAssessment  velocity check, external analysis, assessment     *)
(*   SpecInput      InputValidator.validateTransactionData                 *)
(*   SpecInFlight   AEGESSystem with concurrent calls, some of which throw *)
(*   SpecRecoveryFair  recoveries whose timers fire and calls that go on   *)
(*                                                                         *)
(* Numbers.  Scores, confidences and weights are JavaScript numbers in     *)
(* [0,1].  They are carried here as exact integers: a score s is the       *)
(* integer 100*s ("hundredths"); products keep the finer unit that the     *)
(* multiplication produces and quotients are kept as a pair [num, den].    *)
(* The arithmetic is therefore exact; binary rounding of the last digit    *)
(* of a double is not represented.                                         *)
(***************************************************************************)
EXTENDS Integers, Sequences, FiniteSets, TLC

(* ---- bounds of the model ---- *)
MaxCalls == 1
MaxTime == 1
MaxRequests == 2
MaxParallel == 2
\* rateLimit.requests of every rate-limited provider, scaled down
LimitRequests == 1
MaxProviders == 3
MaxRecords == 2
MaxEvents == 1
MaxConcurrent == 2
MaxHandlers == 2
MaxKeyLen == 13

VARIABLES
  now,                \* Date.now(), in clock ticks
  isInitialized,      \* AEGESSystem.isInitialized
  systemStats,        \* AEGESSystem.systemStats
  activeAnalyses,     \* AEGESBehavioralAnalyzer.activeAnalyses
  analysisHistory,    \* AEGESBehavioralAnalyzer.analysisHistory  (Map)
  activeContainments, \* AEGESContainmentEngine.activeContainments (Map)
  containmentHistory, \* AEGESContainmentEngine.containmentHistory (Map)
  eventHistory,       \* AEGESEventManager.eventHistory (array)
  calls               \* the asynchronous calls in flight and their results

sysVars == <<now, isInitialized, systemStats, activeAnalyses, analysisHistory,
             activeContainments, containmentHistory, eventHistory, calls>>

VARIABLES
  enabled,            \* the providers p with AI_CONFIG.providers[p].enabled
  windows,            \* RateLimiter.windows (Map)
  metrics,            \* GrokAEGESIntegration.metrics
  requests,           \* the analyses in flight and their results
  made,               \* history: rate-checked callProvider requests per window key
  admitted            \* history: makeAPICall invocations per window key

provVars == <<enabled, windows, metrics, requests, made, admitted>>

VARIABLES
  aiProviders,        \* MultiAIAEGESAnalyzer.aiProviders (Map), its keys in order
  aiAnalyses,         \* analyzeWithConsensus: the Map aiAnalyses, in insertion order
  consensus,          \* analyzeWithConsensus: the constant consensus
  mpc                 \* analyzeWithConsensus: the position of the call

consVars == <<aiProviders, aiAnalyses, consensus, mpc>>

VARIABLES
  activeRecoveries,   \* AEGESRecoveryManager.activeRecoveries (Map)
  recoveryHistory,    \* AEGESRecoveryManager.recoveryHistory (Map)
  timers              \* the recovery ids with a pending setTimeout of _progressRecovery

recVars == <<activeRecoveries, recoveryHistory, timers>>

VARIABLES
  eventHandlers,      \* AEGESEventManager.eventHandlers (Map), handlers in order
  handled,            \* history: the handler invocations, per event emitted
  held                \* a handler that does not return holds the thread

evVars == <<eventHandlers, handled, held>>

VARIABLES
  apiKeys,            \* ConfigurationManager.config.apiKeys
  secureConfig        \* the value last returned by getSecureConfig

cfgVars == <<apiKeys, secureConfig>>

VARIABLES
  assessed            \* the last value computed by a function applied to an input

fnVars == <<assessed>>

(* ---- JavaScript values ---- *)
Null == [null |-> TRUE]
undefined == 0 - 1

\* Map.set(k, v)
MapSet(m, k, v) == [x \in (DOMAIN m) \cup {k} |-> IF x = k THEN v ELSE m[x]]
EmptyMap == << >>
MapValues(m) == {m[k] : k \in DOMAIN m}

Calls == 1..MaxCalls
\* the call slots there are; Calls are the slots that sequential callers use
Slots == 1..MaxConcurrent
\* the values Math.random() contributes to an identifier
Rnd == {1, 2}

(* ---- inputs ---- *)
\* transactionData: amount and exchange_context.user_history
Transactions ==
  { [amount |-> 5000,    account_age_days |-> 180, previous_transactions |-> 25],
    [amount |-> 5000,    account_age_days |-> 180, previous_transactions |-> 0],
    [amount |-> 2100000, account_age_days |-> 180, previous_transactions |-> 0],
    [amount |-> 2100000, account_age_days |-> 0,   previous_transactions |-> 0] }

\* externalAI: null, or a provider verdict (hundredths); an externalAI
\* without risk_indicators is treated by _performRiskAssessment as null
ExternalAIs ==
  { Null,
    [provider |-> "grok-3", confidence_score |-> 85,
     risk_indicators |-> [anomaly_score |-> 90, pattern_type |-> "flash_drain"]] }

SeverityLevels == {"critical", "high", "medium", "low"}

\* transactionData.transaction_id: every transaction has an id of its own
transaction_id(transactionData) ==
  <<"TX", transactionData.amount, transactionData.account_age_days,
    transactionData.previous_transactions>>

\* transactionData.wallet_address: every transaction has a wallet of its own
wallet_address(transactionData) ==
  <<"0x", transactionData.amount, transactionData.account_age_days,
    transactionData.previous_transactions>>

\* an analysis id handed to activateContainment that no analysis produced
ForeignAnalysisId == <<"AEGES", 0, 0>>

(* ======================= AEGESBehavioralAnalyzer ======================= *)

\* a < n where a may be undefined (undefined < n is false)
Lt(a, n) == a # undefined /\ a < n

\* _calculateBaseRisk with the account-age comparisons reversed
_calculateBaseRisk_ageReversed(data) ==
  LET amountRisk == IF data.amount > 1000000 THEN 30
                    ELSE IF data.amount > 100000 THEN 20
                    ELSE IF data.amount > 10000 THEN 10 ELSE 0
      ageRisk == IF data.account_age_days # undefined /\ data.account_age_days > 7 THEN 40
                 ELSE IF data.account_age_days # undefined /\ data.account_age_days > 30
                      THEN 20 ELSE 0
      txCount == IF data.previous_transactions = undefined THEN 0
                 ELSE data.previous_transactions
      txRisk == IF txCount = 0 THEN 30 ELSE IF txCount < 5 THEN 20 ELSE 0
      risk == 10 + amountRisk + ageRisk + txRisk
  IN IF risk < 95 THEN risk ELSE 95

\* _calculateBaseRisk without the cap Math.min(risk, 0.95)
_calculateBaseRisk_uncapped(data) ==
  LET amountRisk == IF data.amount > 1000000 THEN 30
                    ELSE IF data.amount > 100000 THEN 20
                    ELSE IF data.amount > 10000 THEN 10 ELSE 0
      ageRisk == IF Lt(data.account_age_days, 7) THEN 40
                 ELSE IF Lt(data.account_age_days, 30) THEN 20 ELSE 0
      txCount == IF data.previous_transactions = undefined THEN 0
                 ELSE data.previous_transactions
      txRisk == IF txCount = 0 THEN 30 ELSE IF txCount < 5 THEN 20 ELSE 0
  IN 10 + amountRisk + ageRisk + txRisk

\* _calculateBaseRisk, in hundredths
_calculateBaseRisk(data) ==
  LET amountRisk == IF data.amount > 1000000 THEN 30
                    ELSE IF data.amount > 100000 THEN 20
                    ELSE IF data.amount > 10000 THEN 10 ELSE 0
      ageRisk == IF Lt(data.account_age_days, 7) THEN 40
                 ELSE IF Lt(data.account_age_days, 30) THEN 20 ELSE 0
      txCount == IF data.previous_transactions = undefined THEN 0
                 ELSE data.previous_transactions
      txRisk == IF txCount = 0 THEN 30 ELSE IF txCount < 5 THEN 20 ELSE 0
      risk == 10 + amountRisk + ageRisk + txRisk
  IN IF risk < 95 THEN risk ELSE 95

\* _checkVelocityAnomaly: || replaces an account age that is undefined or 0
\* by 365 and a total volume that is undefined or 0 by the amount
_checkVelocityAnomaly(data) ==
  LET amount == data.amount
      accountAge == IF data.account_age_days \in {undefined, 0} THEN 365
                    ELSE data.account_age_days
      previousVolume == IF data.total_volume \in {undefined, 0} THEN amount
                        ELSE data.total_volume
  IN amount > (previousVolume * 10) /\ accountAge < 30

\* _integrateExternalAI: baseRisk*baseWeight + aiScore*aiWeight, with the
\* weights in thousandths, so the result is in units of 1/100000
_integrateExternalAI(baseRisk, externalAI) ==
  LET aiScore == externalAI.risk_indicators.anomaly_score
      confidence == IF externalAI.confidence_score = 0 THEN 50
                    ELSE externalAI.confidence_score
      aiWeight == confidence * 4
      baseWeight == 1000 - aiWeight
  IN (baseRisk * baseWeight) + (aiScore * aiWeight)

\* _calculateThreatLevel with the results of the two middle tests exchanged
_calculateThreatLevel_exchanged(riskScore) ==
  IF riskScore >= 80000 THEN "critical"
  ELSE IF riskScore >= 60000 THEN "medium"
  ELSE IF riskScore >= 40000 THEN "high"
  ELSE "low"

\* _calculateThreatLevel on a score in units of 1/100000
_calculateThreatLevel(riskScore) ==
  IF riskScore >= 80000 THEN "critical"
  ELSE IF riskScore >= 60000 THEN "high"
  ELSE IF riskScore >= 40000 THEN "medium"
  ELSE "low"

\* _determineAction with 'monitor' for the case 'high'
_determineAction_monitorHigh(riskAssessment) ==
  CASE riskAssessment.threat_level = "critical" -> "contain"
    [] riskAssessment.threat_level = "high" -> "monitor"
    [] riskAssessment.threat_level = "medium" -> "monitor"
    [] OTHER -> "allow"

\* _determineAction without the case 'high'
_determineAction_noHigh(riskAssessment) ==
  CASE riskAssessment.threat_level = "critical" -> "contain"
    [] riskAssessment.threat_level = "medium" -> "monitor"
    [] OTHER -> "allow"

\* _determineAction
_determineAction(riskAssessment) ==
  CASE riskAssessment.threat_level = "critical" -> "contain"
    [] riskAssessment.threat_level = "high" -> "contain"
    [] riskAssessment.threat_level = "medium" -> "monitor"
    [] OTHER -> "allow"

\* Math.round(x * 100) / 100 of a score in units of 1/100000, in hundredths
Round2(x) == (x + 500) \div 1000

\* _performRiskAssessment
_performRiskAssessment(transactionData, externalAI) ==
  LET baseRisk == _calculateBaseRisk(transactionData)
      enhancedRisk == IF externalAI # Null
                      THEN _integrateExternalAI(baseRisk, externalAI)
                      ELSE baseRisk * 1000
  IN [ threat_level |-> _calculateThreatLevel(enhancedRisk),
       behavioral_score |-> Round2(enhancedRisk),
       ai_enhancement |-> IF externalAI # Null
                          THEN [provider |-> externalAI.provider,
                                confidence |-> externalAI.confidence_score,
                                contribution |-> Round2(enhancedRisk - baseRisk * 1000)]
                          ELSE Null ]

(* ---- the functions of the analyzer applied to the range of their inputs ---- *)

\* amounts on both sides of the amount tiers
Amounts == {0, 10000, 10001, 100000, 100001, 1000000, 1000001}

\* account ages on both sides of the age tiers, and no history context
AccountAges == {undefined, 0, 6, 7, 29, 30}

\* prior transaction counts on both sides of the tiers, and no history context
TransactionCounts == {undefined, 0, 1, 4, 5}

\* the valid transactions by what _calculateBaseRisk reads in them
RiskInputs ==
  [amount : Amounts, account_age_days : AccountAges,
   previous_transactions : TransactionCounts]

\* the scores of [0,1], in thousandths
Scores == 0..1000

\* _calculateBaseRisk is applied to a transaction
applyCalculateBaseRisk(data) ==
  /\ assessed' = [fn |-> "_calculateBaseRisk", data |-> data,
                   risk |-> _calculateBaseRisk(data)]
  /\ UNCHANGED <<sysVars, provVars, consVars, recVars, evVars, cfgVars>>

\* _calculateThreatLevel is applied to a score
applyCalculateThreatLevel(score) ==
  /\ assessed' = [fn |-> "_calculateThreatLevel", score |-> score,
                   threat_level |-> _calculateThreatLevel(score * 100)]
  /\ UNCHANGED <<sysVars, provVars, consVars, recVars, evVars, cfgVars>>

\* _determineAction is applied to a risk assessment of a threat level
applyDetermineAction(level) ==
  /\ assessed' = [fn |-> "_determineAction", threat_level |-> level,
                   recommended_action |-> _determineAction([threat_level |-> level])]
  /\ UNCHANGED <<sysVars, provVars, consVars, recVars, evVars, cfgVars>>

\* the base risks that _calculateBaseRisk gives, in hundredths
BaseRisks == {_calculateBaseRisk(data) : data \in RiskInputs}

\* confidence_score of an external analysis: the ends of [0,1] and values
\* between them, in hundredths
Confidences == {0, 1, 50, 85, 100}

\* anomaly_score of an external analysis, in hundredths of [0,1]
AnomalyScores == {0, 50, 90, 100}

\* the external analyses with risk_indicators
ExternalAnalyses ==
  [provider : {"grok-3"}, confidence_score : Confidences,
   risk_indicators : [anomaly_score : AnomalyScores,
                      pattern_type : {"flash_drain"}]]

\* _integrateExternalAI is applied to a base risk and an external analysis
applyIntegrateExternalAI(baseRisk, externalAI) ==
  /\ assessed' = [fn |-> "_integrateExternalAI", baseRisk |-> baseRisk,
                   externalAI |-> externalAI,
                   enhancedRisk |-> _integrateExternalAI(baseRisk, externalAI)]
  /\ UNCHANGED <<sysVars, provVars, consVars, recVars, evVars, cfgVars>>

\* the transactions by what _checkVelocityAnomaly reads in them: amounts on
\* both sides of 10 times the volume, ages on both sides of 30 days
VelocityInputs ==
  [amount : {0, 1000, 10000, 10001, 50000},
   account_age_days : {undefined, 0, 1, 29, 30},
   total_volume : {undefined, 0, 1000, 5000}]

\* _checkVelocityAnomaly is applied to a transaction
applyCheckVelocityAnomaly(data) ==
  /\ assessed' = [fn |-> "_checkVelocityAnomaly", data |-> data,
                   velocity_anomaly |-> _checkVelocityAnomaly(data)]
  /\ UNCHANGED <<sysVars, provVars, consVars, recVars, evVars, cfgVars>>

\* _performRiskAssessment and _determineAction are applied to a transaction
\* and an external analysis, as analyzeTransaction applies them
applyPerformRiskAssessment(transactionData, externalAI) ==
  LET ra == _performRiskAssessment(transactionData, externalAI) IN
  /\ assessed' = [fn |-> "_performRiskAssessment", data |-> transactionData,
                   externalAI |-> externalAI, risk_assessment |-> ra,
                   recommended_action |-> _determineAction(ra)]
  /\ UNCHANGED <<sysVars, provVars, consVars, recVars, evVars, cfgVars>>

AssessmentNext ==
  \/ \E data \in RiskInputs : applyCalculateBaseRisk(data)
  \/ \E score \in Scores : applyCalculateThreatLevel(score)
  \/ \E level \in SeverityLevels : applyDetermineAction(level)

\* the transactions assessed with an external analysis: every amount tier,
\* the age tiers and the transaction count tiers at their ends
AssessedTransactions ==
  {data \in RiskInputs :
     /\ data.amount \in {0, 100001, 1000001}
     /\ data.account_age_days \in {undefined, 0, 30}
     /\ data.previous_transactions \in {undefined, 5}}

\* the velocity check, the integration of an external analysis and the
\* assessment that is built from them
RiskAssessmentNext ==
  \/ \E data \in VelocityInputs : applyCheckVelocityAnomaly(data)
  \/ \E baseRisk \in BaseRisks, externalAI \in ExternalAnalyses :
       applyIntegrateExternalAI(baseRisk, externalAI)
  \/ \E data \in AssessedTransactions, externalAI \in ExternalAnalyses \cup {Null} :
       applyPerformRiskAssessment(data, externalAI)

(* ======================== AEGESContainmentEngine ======================= *)

\* _determineEconomicState without the case 'medium'
_determineEconomicState_noMedium(severityLevel) ==
  CASE severityLevel = "critical" -> "neutralized"
    [] severityLevel = "high" -> "quarantined"
    [] OTHER -> "frozen"

\* _determineEconomicState
_determineEconomicState(severityLevel) ==
  CASE severityLevel = "critical" -> "neutralized"
    [] severityLevel = "high" -> "quarantined"
    [] severityLevel = "medium" -> "quarantined"
    [] OTHER -> "frozen"

\* _getEstimatedResolutionTime
_getEstimatedResolutionTime(severityLevel) ==
  CASE severityLevel = "critical" -> "P7D"
    [] severityLevel = "high" -> "P3D"
    [] severityLevel = "medium" -> "P1D"
    [] OTHER -> "PT12H"

\* Math.ceil(n * 0.6)
Ceil60(n) == (n * 6 + 9) \div 10

\* _generateRecoveryProtocols
_generateRecoveryProtocols(severityLevel) ==
  LET stakeholderCount == IF severityLevel = "critical" THEN 5
                          ELSE IF severityLevel = "high" THEN 3 ELSE 2
  IN [ consensus_required |-> TRUE,
       stakeholder_count |-> stakeholderCount,
       estimated_resolution_time |-> _getEstimatedResolutionTime(severityLevel),
       approval_threshold |-> Ceil60(stakeholderCount) ]

(* =========================== AEGESEventManager ========================= *)

\* emit: the event appended to eventHistory
emit(history, eventType, payload) ==
  Append(history, [type |-> eventType, payload |-> payload])

\* what a registered handler does when it is called
Handlers == {"returns", "throws", "never_returns"}

\* the event types that integrators subscribe to
EventTypes == {"containment.activated", "threat.detected"}

\* eventHandlers.get(eventType), or no handlers
handlersOf(eventType) ==
  IF eventType \in DOMAIN eventHandlers THEN eventHandlers[eventType] ELSE << >>

\* emit, the forEach over the handlers: the handlers that get called.  The
\* try/catch around a handler catches what it throws and the loop goes on;
\* a handler that does not return keeps the loop from its next handler
calledHandlers(handlers) ==
  {i \in 1..Len(handlers) : \A j \in 1..(i - 1) : handlers[j] # "never_returns"}

\* emit returns to its caller: every handler has returned or thrown
emitReturns(handlers) ==
  \A i \in 1..Len(handlers) : handlers[i] # "never_returns"

\* emit, the handlers of the event with the given number in eventHistory
triggerHandlers(eventType, eventNumber) ==
  /\ handled' = handled \cup
        {<<eventNumber, i>> : i \in calledHandlers(handlersOf(eventType))}
  /\ held' = ~emitReturns(handlersOf(eventType))
  /\ UNCHANGED eventHandlers

\* AEGESEventManager.on
on(eventType, handler) ==
  /\ Cardinality({<<t, i>> \in EventTypes \X (1..MaxHandlers) :
                    i <= Len(handlersOf(t))}) < MaxHandlers
  /\ eventHandlers' = MapSet(eventHandlers, eventType,
                             Append(handlersOf(eventType), handler))
  /\ UNCHANGED <<handled, held>>
  /\ UNCHANGED <<sysVars, provVars, consVars, recVars, cfgVars, fnVars>>

(* ============================== AEGESSystem ============================ *)

\* a call slot: one invocation of processTransaction ("process") or of
\* activateContainment ("activate") and, once it has returned, its result
IdleCall ==
  [ pc |-> "idle", kind |-> "none", tx |-> Null, externalAI |-> Null,
    analysis |-> Null, analysisId |-> Null, severityLevel |-> "none",
    containment |-> Null, result |-> Null ]

\* call slots are taken in order
FreeSlot(p) == calls[p].pc = "idle" /\ \A q \in Slots : q < p => calls[q].pc # "idle"

\* the clock advances
Tick ==
  /\ now < MaxTime
  /\ now' = now + 1
  /\ UNCHANGED <<isInitialized, systemStats, activeAnalyses, analysisHistory,
                 activeContainments, containmentHistory, eventHistory, calls>>
  /\ UNCHANGED <<provVars, consVars, recVars, evVars, cfgVars, fnVars>>

\* AEGESSystem.initialize
initialize ==
  /\ isInitialized' = TRUE
  /\ UNCHANGED <<now, systemStats, activeAnalyses, analysisHistory,
                 activeContainments, containmentHistory, eventHistory, calls>>
  /\ UNCHANGED <<provVars, consVars, recVars, evVars, cfgVars, fnVars>>

\* processTransaction up to the first await inside analyzeTransaction:
\* the initialisation check, total_analyses++, activeAnalyses++
processTransaction(p, transactionData, externalAI) ==
  /\ FreeSlot(p)
  /\ IF ~isInitialized
     THEN /\ calls' = [calls EXCEPT ![p] =
                 [@ EXCEPT !.pc = "done", !.kind = "process",
                           !.tx = transactionData, !.externalAI = externalAI,
                           !.result = [error |-> "not_initialized"]]]
          /\ UNCHANGED <<systemStats, activeAnalyses>>
     ELSE /\ systemStats' = [systemStats EXCEPT !.total_analyses = @ + 1]
          /\ activeAnalyses' = activeAnalyses + 1
          /\ calls' = [calls EXCEPT ![p] =
                 [@ EXCEPT !.pc = "analyzing", !.kind = "process",
                           !.tx = transactionData, !.externalAI = externalAI]]
  /\ UNCHANGED <<now, isInitialized, analysisHistory, activeContainments,
                 containmentHistory, eventHistory>>
  /\ UNCHANGED <<provVars, consVars, recVars, evVars, cfgVars, fnVars>>

\* analyzeTransaction after its awaits: the analysis is built, stored in
\* analysisHistory under its id, and activeAnalyses-- runs in the finally
analyzeTransaction(p, rnd) ==
  /\ calls[p].pc = "analyzing"
  /\ calls[p].tx # Null
  /\ LET ra == _performRiskAssessment(calls[p].tx, calls[p].externalAI)
         analysis == [ analysis_id |-> <<"AEGES", now, rnd>>,
                       transaction_id |-> transaction_id(calls[p].tx),
                       risk_assessment |-> ra,
                       recommended_action |-> _determineAction(ra) ]
     IN /\ analysisHistory' = MapSet(analysisHistory, analysis.analysis_id, analysis)
        /\ calls' = [calls EXCEPT ![p] = [@ EXCEPT !.pc = "analyzed", !.analysis = analysis]]
  /\ activeAnalyses' = activeAnalyses - 1
  /\ UNCHANGED <<now, isInitialized, systemStats, activeContainments,
                 containmentHistory, eventHistory>>
  /\ UNCHANGED <<provVars, consVars, recVars, evVars, cfgVars, fnVars>>

\* analyzeTransaction_throw with the finally block left out
analyzeTransaction_throw_noFinally(p) ==
  /\ calls[p].pc = "analyzing"
  /\ calls[p].tx = Null
  /\ calls' = [calls EXCEPT ![p] =
         [@ EXCEPT !.pc = "done", !.result = [error |-> "TypeError"]]]
  /\ UNCHANGED <<now, isInitialized, systemStats, activeAnalyses, analysisHistory,
                 activeContainments, containmentHistory, eventHistory>>
  /\ UNCHANGED <<provVars, consVars, recVars, evVars, cfgVars, fnVars>>

\* analyzeTransaction called with null for transactionData: after the first
\* await, transactionData.transaction_id throws a TypeError inside the try,
\* activeAnalyses-- runs in the finally, and processTransaction rethrows
analyzeTransaction_throw(p) ==
  /\ calls[p].pc = "analyzing"
  /\ calls[p].tx = Null
  /\ activeAnalyses' = activeAnalyses - 1
  /\ calls' = [calls EXCEPT ![p] =
         [@ EXCEPT !.pc = "done", !.result = [error |-> "TypeError"]]]
  /\ UNCHANGED <<now, isInitialized, systemStats, analysisHistory,
                 activeContainments, containmentHistory, eventHistory>>
  /\ UNCHANGED <<provVars, consVars, recVars, evVars, cfgVars, fnVars>>

\* processTransaction after the analysis: contain, monitor or allow
processTransaction_decide(p) ==
  /\ calls[p].pc = "analyzed"
  /\ LET analysis == calls[p].analysis IN
     IF analysis.recommended_action = "contain"
     THEN /\ calls' = [calls EXCEPT ![p] =
                 [@ EXCEPT !.pc = "activating",
                           !.analysisId = analysis.analysis_id,
                           !.severityLevel = analysis.risk_assessment.threat_level]]
          /\ UNCHANGED <<eventHistory, evVars, cfgVars, fnVars>>
     ELSE /\ IF analysis.recommended_action = "monitor"
             THEN /\ eventHistory' =
                       emit(eventHistory, "threat.detected",
                            [analysis_id |-> analysis.analysis_id,
                             threat_level |-> analysis.risk_assessment.threat_level])
                  /\ triggerHandlers("threat.detected", Len(eventHistory) + 1)
             ELSE UNCHANGED <<eventHistory, evVars, cfgVars, fnVars>>
          /\ calls' = [calls EXCEPT ![p] =
                 IF analysis.recommended_action = "monitor"
                    /\ ~emitReturns(handlersOf("threat.detected"))
                 THEN [@ EXCEPT !.pc = "in_handler"]
                 ELSE [@ EXCEPT !.pc = "done",
                           !.result = [error |-> "none",
                                       action_taken |-> analysis.recommended_action,
                                       analysis |-> analysis,
                                       containment |-> Null]]]
  /\ UNCHANGED <<now, isInitialized, systemStats, activeAnalyses, analysisHistory,
                 activeContainments, containmentHistory>>
  /\ UNCHANGED <<provVars, consVars, recVars, cfgVars, fnVars>>

\* activateContainment called directly by an integrator
activateContainment(p, analysisId, severityLevel) ==
  /\ FreeSlot(p)
  /\ calls' = [calls EXCEPT ![p] =
         [@ EXCEPT !.pc = "activating", !.kind = "activate",
                   !.analysisId = analysisId, !.severityLevel = severityLevel]]
  /\ UNCHANGED <<now, isInitialized, systemStats, activeAnalyses, analysisHistory,
                 activeContainments, containmentHistory, eventHistory>>
  /\ UNCHANGED <<provVars, consVars, recVars, evVars, cfgVars, fnVars>>

\* activateContainment after _simulateContainmentProcessing: the id, the
\* economic state and the activation time are fixed, then it awaits
\* _simulateNetworkPropagation
activateContainment_propagate(p, rnd) ==
  /\ calls[p].pc = "activating"
  /\ calls' = [calls EXCEPT ![p] =
         [@ EXCEPT !.pc = "propagating",
                   !.containment =
                      [ containment_id |-> <<"CONT", now, rnd>>,
                        analysis_id |-> calls[p].analysisId,
                        status |-> "active",
                        economic_state |-> _determineEconomicState(calls[p].severityLevel),
                        activation_time |-> now,
                        severity_level |-> calls[p].severityLevel,
                        recovery_protocols |-> Null ]]]
  /\ UNCHANGED <<now, isInitialized, systemStats, activeAnalyses, analysisHistory,
                 activeContainments, containmentHistory, eventHistory>>
  /\ UNCHANGED <<provVars, consVars, recVars, evVars, cfgVars, fnVars>>

\* activateContainment after the propagation: the containment is recorded
\* in both maps and returned
activateContainment_record(p) ==
  /\ calls[p].pc = "propagating"
  /\ LET containment == [calls[p].containment EXCEPT
                           !.recovery_protocols =
                              _generateRecoveryProtocols(calls[p].severityLevel)]
     IN /\ activeContainments' = MapSet(activeContainments, containment.containment_id, containment)
        /\ containmentHistory' = MapSet(containmentHistory, containment.containment_id, containment)
        /\ calls' = [calls EXCEPT ![p] =
             IF calls[p].kind = "activate"
             THEN [@ EXCEPT !.pc = "done", !.containment = containment,
                            !.result = [error |-> "none", action_taken |-> "activated",
                                        analysis |-> Null, containment |-> containment]]
             ELSE [@ EXCEPT !.pc = "contained", !.containment = containment]]
  /\ UNCHANGED <<now, isInitialized, systemStats, activeAnalyses, analysisHistory,
                 eventHistory>>
  /\ UNCHANGED <<provVars, consVars, recVars, evVars, cfgVars, fnVars>>

\* processTransaction after activateContainment: total_containments++,
\* the containment.activated event and its handlers, the result
processTransaction_contained(p) ==
  /\ calls[p].pc = "contained"
  /\ systemStats' = [systemStats EXCEPT !.total_containments = @ + 1]
  /\ eventHistory' = emit(eventHistory, "containment.activated",
         [ containment_id |-> calls[p].containment.containment_id,
           analysis_id |-> calls[p].analysis.analysis_id,
           threat_level |-> calls[p].analysis.risk_assessment.threat_level,
           economic_state |-> calls[p].containment.economic_state ])
  /\ triggerHandlers("containment.activated", Len(eventHistory) + 1)
  /\ calls' = [calls EXCEPT ![p] =
         IF ~emitReturns(handlersOf("containment.activated"))
         THEN [@ EXCEPT !.pc = "in_handler"]
         ELSE [@ EXCEPT !.pc = "done",
                   !.result = [error |-> "none", action_taken |-> "contained",
                               analysis |-> calls[p].analysis,
                               containment |-> calls[p].containment]]]
  /\ UNCHANGED <<now, isInitialized, activeAnalyses, analysisHistory,
                 activeContainments, containmentHistory>>
  /\ UNCHANGED <<provVars, consVars, recVars, cfgVars, fnVars>>

SysNext ==
  \/ Tick
  \/ initialize
  \/ \E p \in Calls, tx \in Transactions, ai \in ExternalAIs : processTransaction(p, tx, ai)
  \/ \E p \in Calls, rnd \in Rnd : analyzeTransaction(p, rnd)
  \/ \E p \in Calls : processTransaction_decide(p)
  \/ \E p \in Calls, id \in (DOMAIN analysisHistory) \cup {ForeignAnalysisId},
        sev \in SeverityLevels : activateContainment(p, id, sev)
  \/ \E p \in Calls, rnd \in Rnd : activateContainment_propagate(p, rnd)
  \/ \E p \in Calls : activateContainment_record(p)
  \/ \E p \in Calls : processTransaction_contained(p)


(* ================= containment status and recovery ===================== *)

\* the milliseconds of one tick of the clock, of a day and of an hour
TickMs == 8 * 24 * 60 * 60 * 1000
DayMs == 24 * 60 * 60 * 1000
HourMs == 60 * 60 * 1000

\* maxDuration of _calculateTimeRemaining: 7 days in milliseconds
maxDuration == 7 * 24 * 60 * 60 * 1000

\* _calculateTimeRemaining: the days and hours of `P${days}DT${hours}H`
_calculateTimeRemaining(containment) ==
  LET activationTime == containment.activation_time * TickMs
      elapsed == now * TickMs - activationTime
      remaining == IF maxDuration - elapsed > 0 THEN maxDuration - elapsed ELSE 0
  IN [days |-> remaining \div DayMs, hours |-> (remaining % DayMs) \div HourMs]

\* the statuses _getInvestigationStatus draws from with Math.random()
InvestigationStatuses ==
  <<"initiated", "evidence_gathering", "analysis", "consensus_pending",
    "resolution_pending">>

\* an identifier argument that is not given
NoId == << >>

\* String.includes on identifiers kept as sequences of their parts
includes(id, part) ==
  /\ \E i \in 1..Len(id) :
        i + Len(part) - 1 <= Len(id) /\ SubSeq(id, i, i + Len(part) - 1) = part

\* the ids of the active containments that the search by transaction or
\* wallet accepts; a containment has no wallet_address (undefined)
SearchMatches(transactionId, walletAddress) ==
  {id \in DOMAIN activeContainments :
     \/ transactionId # NoId /\ includes(activeContainments[id].analysis_id, transactionId)
     \/ walletAddress # NoId /\ <<undefined>> = walletAddress}

\* the status projection of a containment
StatusOf(containment, randomIndex) ==
  IF containment = Null
  THEN [containment_active |-> FALSE, economic_value |-> "normal"]
  ELSE [containment_active |-> TRUE,
        economic_value |-> containment.economic_state,
        time_remaining |-> _calculateTimeRemaining(containment),
        release_requirements |-> containment.recovery_protocols,
        investigation_status |-> InvestigationStatuses[randomIndex]]

\* the ids a caller can name: those in use and one that is not
ForeignContainmentId == <<"CONT", 0, 0>>
ContainmentIds == (DOMAIN containmentHistory) \cup {ForeignContainmentId}

\* getContainmentStatus: by containment id, else the first active containment
\* the search accepts.  The method reads the Maps, Date.now() and
\* Math.random() and assigns nothing; what it can return is the set of the
\* results over the containment that comes first and the random index.
getContainmentStatus(containmentId, transactionId, walletAddress) ==
  LET found == IF containmentId # NoId
               THEN {IF containmentId \in DOMAIN activeContainments
                     THEN activeContainments[containmentId] ELSE Null}
               ELSE IF SearchMatches(transactionId, walletAddress) = {}
                    THEN {Null}
                    ELSE {activeContainments[id] :
                            id \in SearchMatches(transactionId, walletAddress)}
  IN {StatusOf(containment, randomIndex) :
        containment \in found, randomIndex \in 1..Len(InvestigationStatuses)}

\* _generateVerificationProcess: the status of each check
_generateVerificationProcess ==
  [identity_verification |-> "pending", asset_ownership |-> "pending",
   legitimacy_check |-> "pending"]

\* _generateConsensusRequirements
_generateConsensusRequirements ==
  [required_stakeholders |-> <<"exchange_admin", "compliance_officer", "technical_validator">>,
   approval_threshold |-> 2,
   current_approvals |-> << >>]

\* the claimants of a recovery
Claimants == {"claimant"}

\* an initiateRecovery that releases the containment it is filed against
initiateRecovery_release(containmentId, claimantIdentity, rnd) ==
  /\ Cardinality(DOMAIN recoveryHistory) < MaxRecords
  /\ LET recovery == [ recovery_id |-> <<"REC", now, rnd>>,
                       containment_id |-> containmentId,
                       claimant_identity |-> claimantIdentity,
                       status |-> "initiated",
                       initiation_time |-> now,
                       verification_process |-> _generateVerificationProcess,
                       required_consensus |-> _generateConsensusRequirements ]
     IN /\ activeRecoveries' = MapSet(activeRecoveries, recovery.recovery_id, recovery)
        /\ recoveryHistory' = MapSet(recoveryHistory, recovery.recovery_id, recovery)
        /\ timers' = timers \cup {recovery.recovery_id}
  /\ activeContainments' =
        [id \in DOMAIN activeContainments |->
           IF id = containmentId
           THEN [activeContainments[id] EXCEPT !.economic_state = "normal"]
           ELSE activeContainments[id]]
  /\ UNCHANGED <<now, isInitialized, systemStats, activeAnalyses, analysisHistory,
                 containmentHistory, eventHistory, calls>>
  /\ UNCHANGED <<provVars, consVars, evVars, cfgVars, fnVars>>

\* AEGESRecoveryManager.initiateRecovery
initiateRecovery(containmentId, claimantIdentity, rnd) ==
  /\ Cardinality(DOMAIN recoveryHistory) < MaxRecords
  /\ LET recovery == [ recovery_id |-> <<"REC", now, rnd>>,
                       containment_id |-> containmentId,
                       claimant_identity |-> claimantIdentity,
                       status |-> "initiated",
                       initiation_time |-> now,
                       verification_process |-> _generateVerificationProcess,
                       required_consensus |-> _generateConsensusRequirements ]
     IN /\ activeRecoveries' = MapSet(activeRecoveries, recovery.recovery_id, recovery)
        /\ recoveryHistory' = MapSet(recoveryHistory, recovery.recovery_id, recovery)
        /\ timers' = timers \cup {recovery.recovery_id}
  /\ UNCHANGED <<sysVars, provVars, consVars, evVars, cfgVars, fnVars>>

\* a progress step that also approves the recovery
Progressed_approved(recovery) ==
  [recovery EXCEPT !.verification_process.identity_verification = "in_progress",
                   !.verification_process.legitimacy_check = "completed",
                   !.status = "approved"]

\* the recovery after the assignments of _progressRecovery
Progressed(recovery) ==
  [recovery EXCEPT !.verification_process.identity_verification = "in_progress",
                   !.verification_process.legitimacy_check = "completed"]

\* _progressRecovery, run by the timer that initiateRecovery set; the Maps
\* activeRecoveries and recoveryHistory hold the same object
_progressRecovery(recoveryId) ==
  /\ recoveryId \in timers
  /\ timers' = timers \ {recoveryId}
  /\ IF recoveryId \in DOMAIN activeRecoveries
     THEN /\ activeRecoveries' = [activeRecoveries EXCEPT ![recoveryId] = Progressed(@)]
          /\ recoveryHistory' = [recoveryHistory EXCEPT ![recoveryId] = Progressed(@)]
     ELSE UNCHANGED <<activeRecoveries, recoveryHistory>>
  /\ UNCHANGED <<sysVars, provVars, consVars, evVars, cfgVars, fnVars>>

\* the events _startEventSimulation emits once the event manager is connected
SimulatedEvents ==
  { [type |-> "threat.detected", payload |-> [analysis_id |-> <<"AEGES", now, "SIM">>]],
    [type |-> "containment.activated", payload |-> [containment_id |-> <<"CONT", now, "SIM">>]],
    [type |-> "recovery.completed", payload |-> [recovery_id |-> <<"REC", now, "SIM">>]],
    [type |-> "network.alert", payload |-> [alert_type |-> "new_threat_pattern"]] }

\* simulateEvent of _startEventSimulation
simulateEvent(event) ==
  /\ isInitialized
  /\ Len(eventHistory) < MaxEvents
  /\ eventHistory' = emit(eventHistory, event.type, event.payload)
  /\ triggerHandlers(event.type, Len(eventHistory) + 1)
  /\ UNCHANGED <<now, isInitialized, systemStats, activeAnalyses, analysisHistory,
                 activeContainments, containmentHistory, calls>>
  /\ UNCHANGED <<provVars, consVars, recVars, cfgVars, fnVars>>

\* the caller has taken the result of a call and calls again
returnToCaller(p) ==
  /\ calls[p].pc = "done"
  /\ systemStats.total_analyses < MaxRecords
  /\ calls' = [calls EXCEPT ![p] = IdleCall]
  /\ UNCHANGED <<now, isInitialized, systemStats, activeAnalyses, analysisHistory,
                 activeContainments, containmentHistory, eventHistory>>
  /\ UNCHANGED <<provVars, consVars, recVars, evVars, cfgVars, fnVars>>

\* the transactions submitted: one of a high and one of a critical threat
LifecycleTransactions ==
  {tx \in Transactions : tx.amount = 2100000 /\ tx.previous_transactions = 0}

\* the transactions submitted concurrently: one of a medium threat, whose
\* analysis is monitored, and one of a critical threat, which is contained
ConcurrentTransactions ==
  {tx \in Transactions : tx.previous_transactions = 0
                          /\ (tx.amount = 5000 \/ tx.account_age_days = 0)}

\* AEGESSystem with calls in flight at the same time and with subscribers.
\* JavaScript runs one handler at a time: while a handler holds the thread
\* no other code runs
ConcurrentNext ==
  \/ ~held /\ Tick
  \/ ~held /\ initialize
  \/ ~held /\ \E eventType \in EventTypes, handler \in Handlers : on(eventType, handler)
  \/ ~held /\ \E p \in Slots, tx \in ConcurrentTransactions : processTransaction(p, tx, Null)
  \/ ~held /\ \E p \in Slots, rnd \in Rnd : analyzeTransaction(p, rnd)
  \/ ~held /\ \E p \in Slots : processTransaction_decide(p)
  \/ ~held /\ \E p \in Slots, rnd \in Rnd : activateContainment_propagate(p, rnd)
  \/ ~held /\ \E p \in Slots : activateContainment_record(p)
  \/ ~held /\ \E p \in Slots : processTransaction_contained(p)

\* AEGESSystem with calls in flight at the same time, some of them with null
\* for transactionData, and with callers that call again
InFlightNext ==
  \/ Tick
  \/ initialize
  \/ \E p \in Slots, tx \in ConcurrentTransactions \cup {Null} :
        processTransaction(p, tx, Null)
  \/ \E p \in Slots, rnd \in Rnd : analyzeTransaction(p, rnd)
  \/ \E p \in Slots : analyzeTransaction_throw(p)
  \/ \E p \in Slots : processTransaction_decide(p)
  \/ \E p \in Slots, rnd \in Rnd : activateContainment_propagate(p, rnd)
  \/ \E p \in Slots : activateContainment_record(p)
  \/ \E p \in Slots : processTransaction_contained(p)
  \/ \E p \in Slots : returnToCaller(p)

\* the ids that initiateRecovery can generate
RecoveryIds == {<<"REC", t, rnd>> : t \in 0..MaxTime, rnd \in Rnd}

\* AEGESSystem with one submission that is contained and with recoveries
\* filed against its containment or against an id that is not in use
RecoveryNext ==
  \/ Tick
  \/ initialize
  \/ \E p \in Calls, tx \in LifecycleTransactions : processTransaction(p, tx, Null)
  \/ \E p \in Calls, rnd \in Rnd : analyzeTransaction(p, rnd)
  \/ \E p \in Calls : processTransaction_decide(p)
  \/ \E p \in Calls, rnd \in Rnd : activateContainment_propagate(p, rnd)
  \/ \E p \in Calls : activateContainment_record(p)
  \/ \E p \in Calls : processTransaction_contained(p)
  \/ \E containmentId \in ContainmentIds, claimant \in Claimants, rnd \in Rnd :
        initiateRecovery(containmentId, claimant, rnd)
  \/ \E recoveryId \in RecoveryIds : _progressRecovery(recoveryId)

LifecycleNext ==
  \/ Tick
  \/ initialize
  \/ \E p \in Calls, tx \in LifecycleTransactions : processTransaction(p, tx, Null)
  \/ \E p \in Calls, rnd \in Rnd : analyzeTransaction(p, rnd)
  \/ \E p \in Calls : processTransaction_decide(p)
  \/ \E p \in Calls, rnd \in Rnd : activateContainment_propagate(p, rnd)
  \/ \E p \in Calls : activateContainment_record(p)
  \/ \E p \in Calls : processTransaction_contained(p)
  \/ \E p \in Calls : returnToCaller(p)
  \/ \E containmentId \in ContainmentIds, claimant \in Claimants, rnd \in Rnd :
        initiateRecovery(containmentId, claimant, rnd)
  \/ \E recoveryId \in timers : _progressRecovery(recoveryId)
  \/ \E event \in SimulatedEvents : simulateEvent(event)


(* ============ RateLimiter, AIProviderManager, GrokAEGESIntegration ===== *)

\* a fallbackOrder without mock
fallbackOrder_noMock == <<"xai", "openai", "anthropic">>

\* a fallbackOrder that lists mock first
fallbackOrder_mockFirst == <<"mock", "xai", "openai", "anthropic">>

\* AI_CONFIG.providers in Object.entries order, which is also
\* AI_CONFIG.fallbackOrder
fallbackOrder == <<"xai", "openai", "anthropic", "mock">>

\* the names of AI_CONFIG.providers
ProviderNames == {"xai", "openai", "anthropic", "mock"}

\* the configurations of API keys: mock is always enabled
EnabledConfigs == { {"xai", "openai", "anthropic", "mock"}, {"openai", "mock"} }

Requests == 1..MaxRequests

\* a number that is undefined or NaN
NaN == 0 - 2

\* response contents by what calculateConfidence reads in them: length over
\* 100, the words score/probability, the word confidence
Responses == { [long |-> FALSE, score |-> FALSE, confidence |-> FALSE],
               [long |-> TRUE,  score |-> TRUE,  confidence |-> TRUE] }

\* the ways makeAPICall throws: abort after 30 s, response not ok,
\* unexpected response format
ApiFailures == {"timeout", "http_error", "bad_format"}

\* Array.filter: the elements of s that are in set, in the order of s
RECURSIVE SelectEnabled(_, _)
SelectEnabled(s, set) ==
  IF s = << >> THEN << >>
  ELSE IF Head(s) \in set THEN <<Head(s)>> \o SelectEnabled(Tail(s), set)
       ELSE SelectEnabled(Tail(s), set)

\* getActiveProviders
getActiveProviders == SelectEnabled(fallbackOrder, enabled)

\* the key of the current window of a provider
windowKey(provider) == <<provider, now>>

MapGet0(m, k) == IF k \in DOMAIN m THEN m[k] ELSE 0

\* RateLimiter.canMakeRequest: the windows map after the call (the key of
\* the current window is created with 0) and the answer
canMakeRequest_windows(w, provider) ==
  IF windowKey(provider) \in DOMAIN w THEN w ELSE MapSet(w, windowKey(provider), 0)

canMakeRequest(w, provider) ==
  canMakeRequest_windows(w, provider)[windowKey(provider)] < LimitRequests

\* RateLimiter.recordRequest
recordRequest(w, provider) ==
  MapSet(w, windowKey(provider), MapGet0(w, windowKey(provider)) + 1)

\* calculateConfidence of a response of a real provider, in hundredths
calculateConfidence(response) ==
  LET confidence == 50 + (IF response.long THEN 20 ELSE 0)
                       + (IF response.score THEN 15 ELSE 0)
                       + (IF response.confidence THEN 10 ELSE 0)
  IN IF confidence < 95 THEN confidence ELSE 95

\* what callProvider returns for a real provider
ProviderResult(provider, response) ==
  [ provider |-> provider, response |-> response,
    confidence |-> calculateConfidence(response), model |-> provider ]

\* what callProvider returns for mock: the value of mockAnalysis,
\* {content, raw}, which has none of the fields above
MockResult ==
  [ provider |-> "undefined", response |-> "undefined",
    confidence |-> NaN, model |-> "undefined" ]

NoCalls == [p \in ProviderNames |-> "none"]
NoResponses == [p \in ProviderNames |-> Null]

IdleRequest ==
  [ kind |-> "none", pc |-> "idle", dataOk |-> TRUE, promptOk |-> TRUE,
    providers |-> << >>, idx |-> 0,
    call |-> NoCalls, response |-> NoResponses, order |-> << >>,
    outcome |-> NoCalls, result |-> Null ]

\* the state after construction of AEGESSystem and of GrokAEGESIntegration
Init ==
  /\ now = 0
  /\ isInitialized = FALSE
  /\ systemStats = [total_analyses |-> 0, total_containments |-> 0, total_recoveries |-> 0]
  /\ activeAnalyses = 0
  /\ analysisHistory = EmptyMap
  /\ activeContainments = EmptyMap
  /\ containmentHistory = EmptyMap
  /\ eventHistory = << >>
  /\ calls = [p \in Slots |-> IdleCall]
  /\ enabled \in EnabledConfigs
  /\ windows = EmptyMap
  /\ metrics = [totalAnalyses |-> 0, providerUsage |-> [p \in ProviderNames |-> 0]]
  /\ requests = [r \in Requests |-> IdleRequest]
  /\ made = EmptyMap
  /\ admitted = EmptyMap
  /\ aiProviders = << >>
  /\ aiAnalyses = << >>
  /\ consensus = Null
  /\ mpc = "idle"
  /\ activeRecoveries = EmptyMap
  /\ recoveryHistory = EmptyMap
  /\ timers = {}
  /\ eventHandlers = EmptyMap
  /\ handled = {}
  /\ held = FALSE
  /\ apiKeys = Null
  /\ secureConfig = Null
  /\ assessed = Null

\* the state that the synchronous part of callProvider works on
ProvState(req) == [req |-> req, windows |-> windows, made |-> made, admitted |-> admitted]

\* callProvider up to its first await, for request st.req: validatePrompt,
\* the mock branch, the rate-limit check, the start of makeAPICall
callProvider(st, provider, promptOk) ==
  LET invoked == [st.req EXCEPT !.order = Append(@, provider)] IN
  IF ~promptOk
  THEN [st EXCEPT !.req = [invoked EXCEPT !.call[provider] = "thrown",
                                          !.outcome[provider] = "invalid_prompt"]]
  ELSE IF provider = "mock"
  THEN [st EXCEPT !.req = [invoked EXCEPT !.call[provider] = "mock"]]
  ELSE LET w == canMakeRequest_windows(st.windows, provider)
           k == windowKey(provider)
       IN IF ~canMakeRequest(st.windows, provider)
          THEN [ req |-> [invoked EXCEPT !.call[provider] = "thrown",
                                         !.outcome[provider] = "rate_limited"],
                 windows |-> w,
                 made |-> MapSet(st.made, k, MapGet0(st.made, k) + 1),
                 admitted |-> st.admitted ]
          ELSE [ req |-> [invoked EXCEPT !.call[provider] = "api"],
                 windows |-> w,
                 made |-> MapSet(st.made, k, MapGet0(st.made, k) + 1),
                 admitted |-> MapSet(st.admitted, k, MapGet0(st.admitted, k) + 1) ]

\* performSingleProviderAnalysis from the i-th provider of the list on: the
\* loop runs until a callProvider is pending; when the list is exhausted it
\* throws 'All AI providers failed'
RECURSIVE tryProviders(_, _, _)
tryProviders(st, i, promptOk) ==
  IF i > Len(st.req.providers)
  THEN [st EXCEPT !.req = [@ EXCEPT !.pc = "done", !.idx = i,
                                    !.result = [error |-> "All AI providers failed"]]]
  ELSE LET provider == st.req.providers[i]
           next == callProvider(st, provider, promptOk)
       IN IF next.req.call[provider] = "thrown"
          THEN tryProviders(next, i + 1, promptOk)
          ELSE [next EXCEPT !.req = [@ EXCEPT !.pc = "running", !.idx = i]]

\* the calls of performConsensusAnalysis are started one after the other
RECURSIVE startAll(_, _, _)
startAll(st, i, promptOk) ==
  IF i > Len(st.req.providers) THEN st
  ELSE startAll(callProvider(st, st.req.providers[i], promptOk), i + 1, promptOk)

SetProvState(r, st) ==
  /\ requests' = [requests EXCEPT ![r] = st.req]
  /\ windows' = st.windows
  /\ made' = st.made
  /\ admitted' = st.admitted

FreeRequest(r) ==
  requests[r].pc = "idle" /\ \A q \in Requests : q < r => requests[q].pc # "idle"

\* the clock advances
TickProviders ==
  /\ now < MaxTime
  /\ now' = now + 1
  /\ UNCHANGED <<isInitialized, systemStats, activeAnalyses, analysisHistory,
                 activeContainments, containmentHistory, eventHistory, calls>>
  /\ UNCHANGED <<provVars, consVars, recVars, evVars, cfgVars, fnVars>>

\* performSingleProviderAnalysis is called
performSingleProviderAnalysis(r, promptOk) ==
  /\ FreeRequest(r)
  /\ LET req == [IdleRequest EXCEPT !.kind = "single",
                                    !.promptOk = promptOk,
                                    !.providers = SelectEnabled(fallbackOrder, enabled)]
     IN SetProvState(r, tryProviders(ProvState(req), 1, promptOk))
  /\ UNCHANGED <<enabled, metrics>>
  /\ UNCHANGED <<sysVars, consVars, recVars, evVars, cfgVars, fnVars>>

\* a slice that keeps every element
Slice_all(s, n) == s

\* the first n elements of s (Array.slice(0, n))
Slice(s, n) == SubSeq(s, 1, IF Len(s) < n THEN Len(s) ELSE n)

\* performConsensusAnalysis is called: callProvider is started for the first
\* three active providers
performConsensusAnalysis(r, promptOk) ==
  /\ FreeRequest(r) /\ r <= MaxParallel
  /\ LET req == [IdleRequest EXCEPT !.kind = "consensus", !.pc = "running",
                                    !.promptOk = promptOk,
                                    !.providers = Slice(getActiveProviders, 3)]
     IN SetProvState(r, startAll(ProvState(req), 1, promptOk))
  /\ UNCHANGED <<enabled, metrics>>
  /\ UNCHANGED <<sysVars, consVars, recVars, evVars, cfgVars, fnVars>>

\* updateMetrics on the event analysis_complete
updateMetrics(m, provider) ==
  [ totalAnalyses |-> m.totalAnalyses + 1,
    providerUsage |-> [m.providerUsage EXCEPT ![provider] = @ + 1] ]

\* what performSingleProviderAnalysis returns from a callProvider result
SingleResult(res) ==
  [ error |-> "none", analysis |-> res.response, provider |-> res.provider,
    confidence |-> res.confidence, model |-> res.model, consensus |-> FALSE ]

\* callProvider after makeAPICall has answered: the request is recorded in
\* the window of the time of the answer and the result is returned
makeAPICall_return(r, provider, response) ==
  /\ requests[r].call[provider] = "api"
  /\ windows' = recordRequest(windows, provider)
  /\ metrics' = updateMetrics(metrics, provider)
  /\ LET res == ProviderResult(provider, response)
         req == [requests[r] EXCEPT !.call[provider] = "returned",
                                    !.response[provider] = res,
                                    !.outcome[provider] = "ok"]
     IN requests' = [requests EXCEPT ![r] =
          IF req.kind = "single"
          THEN [req EXCEPT !.pc = "done", !.result = SingleResult(res)]
          ELSE req]
  /\ UNCHANGED <<enabled, made, admitted>>
  /\ UNCHANGED <<sysVars, consVars, recVars, evVars, cfgVars, fnVars>>

\* callProvider after makeAPICall has thrown: nothing is recorded and the
\* error is rethrown; performSingleProviderAnalysis goes on with the next
\* provider, performConsensusAnalysis keeps null
makeAPICall_throw(r, provider, failure) ==
  /\ requests[r].call[provider] = "api"
  /\ failure \in ApiFailures
  /\ LET req == [requests[r] EXCEPT !.call[provider] = "thrown",
                                    !.outcome[provider] = "failed"]
     IN IF req.kind = "single"
        THEN SetProvState(r, tryProviders(ProvState(req), req.idx + 1, req.promptOk))
        ELSE /\ requests' = [requests EXCEPT ![r] = req]
             /\ UNCHANGED <<windows, made, admitted>>
  /\ UNCHANGED <<enabled, metrics>>
  /\ UNCHANGED <<sysVars, consVars, recVars, evVars, cfgVars, fnVars>>

\* callProvider('mock') after mockAnalysis has answered
mockAnalysis_return(r) ==
  /\ requests[r].call["mock"] = "mock"
  /\ LET req == [requests[r] EXCEPT !.call["mock"] = "returned",
                                    !.response["mock"] = MockResult,
                                    !.outcome["mock"] = "ok"]
     IN requests' = [requests EXCEPT ![r] =
          IF req.kind = "single"
          THEN [req EXCEPT !.pc = "done", !.result = SingleResult(MockResult)]
          ELSE req]
  /\ UNCHANGED <<enabled, windows, metrics, made, admitted>>
  /\ UNCHANGED <<sysVars, consVars, recVars, evVars, cfgVars, fnVars>>

\* a join that keeps the responses only when no call failed
validResponsesOf_allOrNothing(providers, response) ==
  IF \E i \in 1..Len(providers) : response[providers[i]] = Null THEN << >>
  ELSE [i \in 1..Len(providers) |-> response[providers[i]]]

\* responses.filter(r => r !== null), in the order of the providers
RECURSIVE validResponsesOf(_, _)
validResponsesOf(providers, response) ==
  IF providers = << >> THEN << >>
  ELSE IF response[Head(providers)] # Null
       THEN <<response[Head(providers)]>> \o validResponsesOf(Tail(providers), response)
       ELSE validResponsesOf(Tail(providers), response)

\* reduce((sum, r) => sum + r.confidence, 0); NaN once a confidence is undefined
RECURSIVE totalConfidenceOf(_)
totalConfidenceOf(responses) ==
  IF responses = << >> THEN 0
  ELSE LET rest == totalConfidenceOf(Tail(responses)) IN
       IF Head(responses).confidence = NaN \/ rest = NaN THEN NaN
       ELSE Head(responses).confidence + rest

\* GrokAEGESIntegration.calculateConsensus: the average confidence as the
\* quotient num/den, and agreement = avgConfidence > consensusThreshold (0.7)
GrokAEGESIntegration_calculateConsensus(responses) ==
  LET totalConfidence == totalConfidenceOf(responses) IN
  [ confidence |-> [num |-> totalConfidence, den |-> Len(responses)],
    agreement |-> totalConfidence # NaN /\ totalConfidence > 70 * Len(responses) ]

\* performConsensusAnalysis after Promise.all: every call has settled
performConsensusAnalysis_join(r) ==
  /\ requests[r].kind = "consensus" /\ requests[r].pc = "running"
  /\ \A p \in ProviderNames : requests[r].call[p] \in {"none", "returned", "thrown"}
  /\ LET validResponses == validResponsesOf(requests[r].providers, requests[r].response)
         consensusOf == GrokAEGESIntegration_calculateConsensus(validResponses)
     IN requests' = [requests EXCEPT ![r] =
          [@ EXCEPT !.pc = "done",
                    !.result =
                      IF Len(validResponses) = 0
                      THEN [error |-> "No providers available for consensus analysis"]
                      ELSE [ error |-> "none",
                             providers |-> [i \in 1..Len(validResponses) |->
                                               validResponses[i].provider],
                             confidence |-> consensusOf.confidence,
                             consensus |-> TRUE,
                             agreement |-> consensusOf.agreement ]]]
  /\ UNCHANGED <<enabled, windows, metrics, made, admitted>>
  /\ UNCHANGED <<sysVars, consVars, recVars, evVars, cfgVars, fnVars>>

\* analyzeTransactionWithAI of an integration with the given enableConsensus.
\* dataOk: validateTransactionData accepts the transaction; promptOk: the
\* prompt generated from it has at most 10000 characters, which
\* validatePrompt tests in every callProvider
analyzeTransactionWithAI(r, dataOk, promptOk, enableConsensus) ==
  IF ~dataOk
  THEN /\ FreeRequest(r)
       /\ requests' = [requests EXCEPT ![r] =
            [IdleRequest EXCEPT !.kind = "rejected", !.pc = "done", !.dataOk = FALSE,
                                !.promptOk = promptOk,
                                !.result = [error |-> "Invalid transaction data"]]]
       /\ UNCHANGED <<enabled, windows, metrics, made, admitted>>
       /\ UNCHANGED <<sysVars, consVars, recVars, evVars, cfgVars, fnVars>>
  ELSE IF enableConsensus
       THEN performConsensusAnalysis(r, promptOk)
       ELSE performSingleProviderAnalysis(r, promptOk)

\* an integration with enableConsensus = false: sequential fallback
FallbackNext ==
  \/ TickProviders
  \/ \E r \in Requests, promptOk \in BOOLEAN : performSingleProviderAnalysis(r, promptOk)
  \/ \E r \in Requests, p \in ProviderNames, response \in Responses :
        makeAPICall_return(r, p, response)
  \/ \E r \in Requests, p \in ProviderNames, failure \in ApiFailures :
        makeAPICall_throw(r, p, failure)
  \/ \E r \in Requests : mockAnalysis_return(r)

\* an integration with enableConsensus = true: parallel consensus
ParallelNext ==
  \/ TickProviders
  \/ \E r \in Requests, promptOk \in BOOLEAN : performConsensusAnalysis(r, promptOk)
  \/ \E r \in Requests, p \in ProviderNames, response \in Responses :
        makeAPICall_return(r, p, response)
  \/ \E r \in Requests, p \in ProviderNames, failure \in ApiFailures :
        makeAPICall_throw(r, p, failure)
  \/ \E r \in Requests : mockAnalysis_return(r)
  \/ \E r \in Requests : performConsensusAnalysis_join(r)

\* the call of provider p for request r settles: makeAPICall answers or
\* throws (the abort after 30 s included), mockAnalysis answers
SettleCall(r, p) ==
  \/ \E response \in Responses : makeAPICall_return(r, p, response)
  \/ \E failure \in ApiFailures : makeAPICall_throw(r, p, failure)
  \/ p = "mock" /\ mockAnalysis_return(r)

\* parallel consensus with valid prompts, one kind of answer and the
\* timeout as the failure of a call
JoinNext ==
  \/ TickProviders
  \/ \E r \in Requests : performConsensusAnalysis(r, TRUE)
  \/ \E r \in Requests, p \in ProviderNames, response \in {x \in Responses : x.long} :
        makeAPICall_return(r, p, response)
  \/ \E r \in Requests, p \in ProviderNames : makeAPICall_throw(r, p, "timeout")
  \/ \E r \in Requests : mockAnalysis_return(r)
  \/ \E r \in Requests : performConsensusAnalysis_join(r)

\* an integration with enableConsensus = false that is called through
\* analyzeTransactionWithAI
ValidationNext ==
  \/ TickProviders
  \/ \E r \in Requests, dataOk \in BOOLEAN, promptOk \in BOOLEAN :
        analyzeTransactionWithAI(r, dataOk, promptOk, FALSE)
  \/ \E r \in Requests, p \in ProviderNames, response \in Responses :
        makeAPICall_return(r, p, response)
  \/ \E r \in Requests, p \in ProviderNames, failure \in ApiFailures :
        makeAPICall_throw(r, p, failure)
  \/ \E r \in Requests : mockAnalysis_return(r)

(* ============================ InputValidator =========================== *)

\* const required = ['id', 'amount', 'timestamp', 'from', 'to']
required == <<"id", "amount", "timestamp", "from", "to">>

\* the values of data.amount: numbers, NaN, a numeric string, or no amount
AmountValues ==
  [type : {"number"}, value : {0 - 100, 0 - 1, 0, 1, 100}]
    \cup {[type |-> "NaN", value |-> 0], [type |-> "string", value |-> 100],
          [type |-> "undefined", value |-> 0]}

\* the records handed to validateTransactionData; id, timestamp, from and to
\* are TRUE when the field is there with a truthy value
TransactionRecords ==
  [id : BOOLEAN, amount : AmountValues, timestamp : BOOLEAN,
   from : BOOLEAN, to : BOOLEAN]

\* typeof amount: NaN is of type 'number'
typeof(amount) == IF amount.type = "NaN" THEN "number" ELSE amount.type

\* !data[field]: undefined, NaN and the number 0 are falsy
Falsy(data, field) ==
  IF field = "amount"
  THEN \/ data.amount.type \in {"undefined", "NaN"}
       \/ data.amount.type = "number" /\ data.amount.value = 0
  ELSE ~data[field]

\* InputValidator.validateTransactionData: the error thrown, or none
validateTransactionData(data) ==
  LET missing == {i \in 1..Len(required) : Falsy(data, required[i])} IN
  IF missing # {}
  THEN [error |-> "Missing required field",
        field |-> required[CHOOSE i \in missing : \A j \in missing : i <= j]]
  ELSE IF typeof(data.amount) # "number" \/ data.amount.value < 0
  THEN [error |-> "Amount must be a positive number", field |-> "amount"]
  ELSE [error |-> "none", field |-> "none"]

\* validateTransactionData is applied to a record
applyValidateTransactionData(data) ==
  /\ assessed' = [fn |-> "validateTransactionData", data |-> data,
                   result |-> validateTransactionData(data)]
  /\ UNCHANGED <<sysVars, provVars, consVars, recVars, evVars, cfgVars>>

InputNext ==
  \E data \in TransactionRecords : applyValidateTransactionData(data)

(* ========================= ConfigurationManager ======================== *)

\* the characters of an API key
KeyChars == {"s", "k"}

\* the API keys of the environment: strings of 1 to MaxKeyLen characters,
\* all "s" or with a "k" in one position (maskAPIKey looks at positions only)
Keys ==
  UNION {{[i \in 1..n |-> IF i = j THEN "k" ELSE "s"] : j \in 0..n} : n \in 1..MaxKeyLen}

\* a key that is not configured (null)
NoKey == << >>

\* String.substring(from, to) with the positions clamped to the string
substring(str, from, to) ==
  LET lo == IF from < 0 THEN 0 ELSE IF from > Len(str) THEN Len(str) ELSE from
      hi == IF to < 0 THEN 0 ELSE IF to > Len(str) THEN Len(str) ELSE to
  IN SubSeq(str, lo + 1, hi)

\* a mask that shows the first and the last character
maskAPIKey_short(key) ==
  IF key = NoKey THEN <<"Not configured">>
  ELSE substring(key, 0, 1) \o <<".", ".", ".">> \o substring(key, Len(key) - 1, Len(key))

\* maskAPIKey
maskAPIKey(key) ==
  IF key = NoKey THEN <<"Not configured">>
  ELSE substring(key, 0, 8) \o <<".", ".", ".">> \o substring(key, Len(key) - 4, Len(key))

\* the constructor: loadFromEnvironment with XAI_API_KEY set to key
loadFromEnvironment(key) ==
  /\ apiKeys = Null
  /\ apiKeys' = [xai |-> key, openai |-> NoKey, anthropic |-> NoKey]
  /\ UNCHANGED secureConfig
  /\ UNCHANGED <<sysVars, provVars, consVars, recVars, evVars, fnVars>>

\* getSecureConfig: a copy of the configuration with the keys masked
getSecureConfig ==
  /\ apiKeys # Null
  /\ secureConfig' =
       [apiKeys |-> [provider \in DOMAIN apiKeys |->
                       IF apiKeys[provider] # NoKey THEN maskAPIKey(apiKeys[provider])
                       ELSE apiKeys[provider]]]
  /\ UNCHANGED apiKeys
  /\ UNCHANGED <<sysVars, provVars, consVars, recVars, evVars, fnVars>>

ConfigNext ==
  \/ \E key \in Keys : loadFromEnvironment(key)
  \/ getSecureConfig

(* ========================= MultiAIAEGESAnalyzer ======================== *)

\* this.consensusThreshold = 0.6, in hundredths
consensusThreshold == 60

\* the verdicts an analysisFunction can return
Verdicts ==
  [confidence_score : {0, 40, 60, 100},
   risk_indicators : [anomaly_score : {10, 90},
                      pattern_type : {"flash_drain", "normal_activity"}]]

\* { error: error.message, confidence_score: 0 }
ErrorAnalysis == [error |-> "provider error", confidence_score |-> 0]

\* analysis.error is set
HasError(analysis) == "error" \in DOMAIN analysis

\* filter(([name, analysis]) => !analysis.error && analysis.confidence_score > 0)
validAnalysesOf(analyses) ==
  SelectSeq(analyses,
            LAMBDA e : ~HasError(e.analysis) /\ e.analysis.confidence_score > 0)

\* a weight that is the same for every verdict
weightOf_uniform(analysis) == 50

\* analysis.confidence_score || 0.5
weightOf(analysis) ==
  IF analysis.confidence_score = 0 THEN 50 ELSE analysis.confidence_score

\* analysis.risk_indicators?.anomaly_score || 0
riskScoreOf(analysis) == analysis.risk_indicators.anomaly_score

\* a sum of the risk scores that leaves the weights out
RECURSIVE totalWeightedRiskOf_unweighted(_)
totalWeightedRiskOf_unweighted(valid) ==
  IF valid = << >> THEN 0
  ELSE riskScoreOf(Head(valid).analysis) * 100
         + totalWeightedRiskOf_unweighted(Tail(valid))

\* totalWeightedRisk after the forEach, in units of 1/10000
RECURSIVE totalWeightedRiskOf(_)
totalWeightedRiskOf(valid) ==
  IF valid = << >> THEN 0
  ELSE riskScoreOf(Head(valid).analysis) * weightOf(Head(valid).analysis)
         + totalWeightedRiskOf(Tail(valid))

\* totalWeight after the forEach, in hundredths
RECURSIVE totalWeightOf(_)
totalWeightOf(valid) ==
  IF valid = << >> THEN 0
  ELSE weightOf(Head(valid).analysis) + totalWeightOf(Tail(valid))

\* patternVotes.set(pattern, (patternVotes.get(pattern) || 0) + weight) on a
\* Map kept as the sequence of its entries in insertion order
addVote(votes, pattern, weight) ==
  IF \E i \in 1..Len(votes) : votes[i].pattern = pattern
  THEN [i \in 1..Len(votes) |->
          IF votes[i].pattern = pattern
          THEN [pattern |-> pattern, votes |-> votes[i].votes + weight]
          ELSE votes[i]]
  ELSE Append(votes, [pattern |-> pattern, votes |-> weight])

\* patternVotes after the forEach
RECURSIVE patternVotesOf(_, _)
patternVotesOf(valid, votes) ==
  IF valid = << >> THEN votes
  ELSE patternVotesOf(Tail(valid),
                      addVote(votes,
                              Head(valid).analysis.risk_indicators.pattern_type,
                              weightOf(Head(valid).analysis)))

\* maxVotes >= (totalWeight * this.consensusThreshold)
thresholdMet(maxVotes, totalWeight) ==
  maxVotes * 100 >= totalWeight * consensusThreshold

\* the loop over patternVotes with >= for >: a later pattern wins a tie
RECURSIVE highestVotes_lastWins(_, _)
highestVotes_lastWins(votes, best) ==
  IF votes = << >> THEN best
  ELSE highestVotes_lastWins(Tail(votes),
                             IF Head(votes).votes >= best.votes THEN Head(votes)
                             ELSE best)

\* the loop over patternVotes: a later pattern wins only with more votes
RECURSIVE highestVotes(_, _)
highestVotes(votes, best) ==
  IF votes = << >> THEN best
  ELSE highestVotes(Tail(votes),
                    IF Head(votes).votes > best.votes THEN Head(votes) ELSE best)

\* Math.min(a / b, 1.0) as a quotient
MinOne(a, b) == IF a > b * 100 THEN [num |-> 100, den |-> 1] ELSE [num |-> a, den |-> b]

\* validAnalyses.map(([name, analysis]) => ({ name, confidence, risk_score }))
contributingProviders(valid) ==
  [i \in 1..Len(valid) |->
     [name |-> valid[i].name,
      confidence |-> valid[i].analysis.confidence_score,
      risk_score |-> riskScoreOf(valid[i].analysis)]]

\* MultiAIAEGESAnalyzer.calculateConsensus.  anomaly_score and
\* confidence_score are the quotients num/den, in hundredths;
\* consensus_strength is the ratio num/den.
calculateConsensus(analyses) ==
  LET validAnalyses == validAnalysesOf(analyses) IN
  IF Len(validAnalyses) = 0
  THEN [consensus_reached |-> FALSE,
        aggregated_analysis |-> Null,
        error |-> "No valid AI analyses available"]
  ELSE
    LET totalWeightedRisk == totalWeightedRiskOf(validAnalyses)
        totalWeight == totalWeightOf(validAnalyses)
        winner == highestVotes(patternVotesOf(validAnalyses, << >>),
                               [pattern |-> "unknown", votes |-> 0])
    IN [consensus_reached |-> thresholdMet(winner.votes, totalWeight),
        consensus_strength |-> [num |-> winner.votes, den |-> totalWeight],
        aggregated_analysis |->
          [provider |-> "multi_ai_consensus",
           confidence_score |-> MinOne(totalWeight, Len(validAnalyses)),
           risk_indicators |->
             [anomaly_score |->
                IF totalWeight > 0
                THEN [num |-> totalWeightedRisk, den |-> totalWeight]
                ELSE [num |-> 0, den |-> 1],
              pattern_type |-> winner.pattern,
              consensus_strength |-> [num |-> winner.votes, den |-> totalWeight]],
           contributing_providers |-> contributingProviders(validAnalyses)],
        error |-> "none"]

\* registerAIProvider(name, analysisFunction) with a name not yet registered
registerAIProvider ==
  /\ Len(aiProviders) < MaxProviders
  /\ aiProviders' = Append(aiProviders, Len(aiProviders) + 1)
  /\ UNCHANGED <<aiAnalyses, consensus, mpc>>
  /\ UNCHANGED <<sysVars, provVars, recVars, evVars, cfgVars, fnVars>>

\* analyzeWithConsensus up to its first await: the call of the first
\* analysisFunction or, with no provider registered, of processTransaction
analyzeWithConsensus ==
  /\ mpc = "idle"
  /\ aiAnalyses' = << >>
  /\ IF aiProviders = << >>
     THEN consensus' = calculateConsensus(<< >>) /\ mpc' = "processing"
     ELSE consensus' = Null /\ mpc' = "collecting"
  /\ UNCHANGED aiProviders
  /\ UNCHANGED <<sysVars, provVars, recVars, evVars, cfgVars, fnVars>>

\* the loop body after the await, with the analysis set for the provider;
\* after the last provider the call goes on to calculateConsensus and waits
\* for processTransaction
collect(analysis) ==
  LET set == Append(aiAnalyses,
                    [name |-> aiProviders[Len(aiAnalyses) + 1], analysis |-> analysis])
  IN /\ aiAnalyses' = set
     /\ IF Len(set) = Len(aiProviders)
        THEN consensus' = calculateConsensus(set) /\ mpc' = "processing"
        ELSE UNCHANGED <<consensus, mpc>>
     /\ UNCHANGED aiProviders
     /\ UNCHANGED <<sysVars, provVars, recVars, evVars, cfgVars, fnVars>>

\* the awaited analysisFunction returns an analysis
analysisFunction_return(analysis) ==
  /\ mpc = "collecting"
  /\ collect(analysis)

\* the awaited analysisFunction throws
analysisFunction_throw ==
  /\ mpc = "collecting"
  /\ collect(ErrorAnalysis)

\* processTransaction(transactionData, consensus.aggregated_analysis) has
\* returned (its steps are those of Spec) and analyzeWithConsensus returns
analyzeWithConsensus_return ==
  /\ mpc = "processing"
  /\ mpc' = "idle"
  /\ UNCHANGED <<aiProviders, aiAnalyses, consensus>>
  /\ UNCHANGED <<sysVars, provVars, recVars, evVars, cfgVars, fnVars>>

ConsensusNext ==
  \/ registerAIProvider
  \/ analyzeWithConsensus
  \/ \E analysis \in Verdicts : analysisFunction_return(analysis)
  \/ analysisFunction_throw
  \/ analyzeWithConsensus_return

vars == <<sysVars, provVars, consVars, recVars, evVars, cfgVars, fnVars>>


(* ============================ specifications ========================== *)

Next == SysNext

Spec == Init /\ [][Next]_vars

SpecFallback == Init /\ [][FallbackNext]_vars

SpecParallel == Init /\ [][ParallelNext]_vars

SpecConsensus == Init /\ [][ConsensusNext]_vars

\* AEGESSystem does not read AI_CONFIG: one configuration of it is enough
LifecycleInit == Init /\ enabled = ProviderNames

SpecLifecycle == LifecycleInit /\ [][LifecycleNext]_vars

SpecConcurrent == LifecycleInit /\ [][ConcurrentNext]_vars

SpecValidation == Init /\ [][ValidationNext]_vars

\* while a call is pending or a settled Promise.all waits for its
\* continuation, one of them takes its step
ParallelFairness ==
  WF_vars(\E r \in Requests :
            \/ performConsensusAnalysis_join(r)
            \/ \E p \in ProviderNames : SettleCall(r, p))

SpecConfig == LifecycleInit /\ [][ConfigNext]_vars

SpecAssessment == LifecycleInit /\ [][AssessmentNext]_vars

SpecRiskAssessment == LifecycleInit /\ [][RiskAssessmentNext]_vars

SpecInput == LifecycleInit /\ [][InputNext]_vars

SpecInFlight == LifecycleInit /\ [][InFlightNext]_vars

\* the timer that initiateRecovery sets fires, and a call that can take a
\* step takes it
RecoveryFairness ==
  /\ WF_vars(\E recoveryId \in RecoveryIds : _progressRecovery(recoveryId))
  /\ WF_vars(\E p \in Calls :
               \/ \E rnd \in Rnd : analyzeTransaction(p, rnd)
               \/ processTransaction_decide(p)
               \/ \E rnd \in Rnd : activateContainment_propagate(p, rnd)
               \/ activateContainment_record(p)
               \/ processTransaction_contained(p))

SpecRecoveryFair == LifecycleInit /\ [][RecoveryNext]_vars /\ RecoveryFairness

\* parallel consensus where every provider call answers, fails or times out
SpecParallelFair == Init /\ [][JoinNext]_vars /\ ParallelFairness

(* ======================= properties of AEGESSystem ===================== *)

\* call p takes a step
Steps(p) == calls'[p] # calls[p]

\* call p returns from processTransaction with a result
Returns(p) ==
  /\ calls[p].pc # "done" /\ calls'[p].pc = "done"
  /\ calls'[p].kind = "process" /\ calls'[p].result.error = "none"

\* C1: processTransaction creates a Containment if and only if the decided
\* action is 'contain', which is the case exactly for the threat levels high
\* and critical.  A call that decided 'monitor' or 'allow' returns no
\* Containment and none of its steps changes the containment maps; a call
\* that decided 'contain' changes them in one step only, which records one
\* Containment under its id, and that Containment is the one returned.
C1_ContainIffContainDecision ==
  [][ \A p \in Calls :
        /\ Returns(p) =>
             LET r == calls'[p].result IN
             /\ (r.containment # Null) <=> (r.analysis.recommended_action = "contain")
             /\ (r.analysis.recommended_action = "contain")
                   <=> (r.analysis.risk_assessment.threat_level \in {"high", "critical"})
             /\ (r.action_taken = "contained") <=> (r.containment # Null)
             /\ r.containment # Null =>
                  /\ r.containment.analysis_id = r.analysis.analysis_id
                  /\ r.containment.containment_id \in DOMAIN containmentHistory'
             /\ r.containment = Null => r.action_taken = r.analysis.recommended_action
        /\ (Steps(p) /\ calls'[p].kind = "process") =>
             IF calls[p].pc = "propagating"
             THEN /\ calls[p].analysis.recommended_action = "contain"
                  /\ \E id \in DOMAIN activeContainments' :
                       /\ activeContainments' =
                            MapSet(activeContainments, id, calls'[p].containment)
                       /\ containmentHistory' =
                            MapSet(containmentHistory, id, calls'[p].containment)
             ELSE /\ activeContainments' = activeContainments
                  /\ containmentHistory' = containmentHistory
    ]_vars

\* a processTransaction call has returned a Containment
C1_Witness ==
  \E p \in Calls : /\ calls[p].pc = "done" /\ calls[p].kind = "process"
                   /\ calls[p].result.error = "none"
                   /\ calls[p].result.action_taken = "contained"
                   /\ calls[p].result.containment # Null

\* the economic state the transition NONE -> ACTIVE assigns to a severity
EconomicStateOf(severity) ==
  IF severity = "critical" THEN "neutralized"
  ELSE IF severity \in {"high", "medium"} THEN "quarantined"
  ELSE "frozen"

\* C2: every Containment recorded by activateContainment has status
\* 'active' and the economic state of its severity: neutralized for
\* critical, quarantined for high or medium, frozen for any other.
C2_ActivationState ==
  \A id \in DOMAIN containmentHistory :
     LET c == containmentHistory[id] IN
     /\ c.status = "active"
     /\ c.economic_state = EconomicStateOf(c.severity_level)
     /\ id \in DOMAIN activeContainments /\ activeContainments[id] = c

\* a Containment of a severity other than critical and high is recorded
C2_Witness ==
  \E id \in DOMAIN containmentHistory :
     /\ containmentHistory[id].severity_level = "medium"
     /\ containmentHistory[id].economic_state = "quarantined"

\* the scenario of C3
CriticalTx == [amount |-> 2100000, account_age_days |-> 0, previous_transactions |-> 0]
Verdict85_90 ==
  [provider |-> "grok-3", confidence_score |-> 85,
   risk_indicators |-> [anomaly_score |-> 90, pattern_type |-> "flash_drain"]]

\* C3: the transaction {amount 2100000, account_age_days 0,
\* previous_transactions 0} processed with a verdict of confidence 0.85 and
\* risk 0.9 yields threat level critical, action contain and a Containment
\* whose economic state is neutralized.
C3_CriticalScenario ==
  \A p \in Calls :
     ( /\ calls[p].pc = "done" /\ calls[p].kind = "process"
       /\ calls[p].result.error = "none"
       /\ calls[p].tx = CriticalTx /\ calls[p].externalAI = Verdict85_90 )
     => LET r == calls[p].result IN
        /\ r.analysis.risk_assessment.threat_level = "critical"
        /\ r.analysis.recommended_action = "contain"
        /\ r.action_taken = "contained"
        /\ r.containment # Null
        /\ r.containment.economic_state = "neutralized"

\* the scenario of C3 has been processed
C3_Witness ==
  \E p \in Calls :
     /\ calls[p].pc = "done" /\ calls[p].kind = "process"
     /\ calls[p].result.error = "none"
     /\ calls[p].tx = CriticalTx /\ calls[p].externalAI = Verdict85_90

(* ================== properties of GrokAEGESIntegration ================= *)

RealProviders == {"xai", "openai", "anthropic"}

\* the elements of a sequence
Range(s) == {s[i] : i \in 1..Len(s)}

\* the outcomes of a callProvider that did not succeed
FailedOutcomes == {"failed", "rate_limited", "invalid_prompt"}

\* the providers of a request whose call succeeded
Succeeded(req) == {p \in Range(req.providers) : req.outcome[p] = "ok"}

PriorityList == SelectEnabled(<<"xai", "openai", "anthropic", "mock">>, enabled)

\* C5: sequential fallback calls the enabled providers in the order xai,
\* openai, anthropic, mock; a provider is called only after every provider
\* before it has failed; the result returned is that of the first provider
\* that succeeds; the operation fails with 'All AI providers failed' only
\* when every provider of the list has failed.
C5_SequentialFallback ==
  \A r \in Requests :
     requests[r].kind = "single" =>
        LET req == requests[r]
            n == Len(req.order)
        IN
        /\ n <= Len(PriorityList)
        /\ \A i \in 1..n : req.order[i] = PriorityList[i]
        /\ \A i \in 1..n : \A j \in 1..(i - 1) : req.outcome[req.order[j]] \in FailedOutcomes
        /\ req.pc = "running" => n >= 1 /\ req.call[req.order[n]] \in {"api", "mock"}
        /\ (req.pc = "done" /\ req.result.error = "none") =>
              /\ n >= 1 /\ req.outcome[req.order[n]] = "ok"
              /\ req.result = SingleResult(req.response[req.order[n]])
              /\ req.order[n] \in RealProviders => req.result.provider = req.order[n]
        /\ (req.pc = "done" /\ req.result.error # "none") =>
              /\ req.result.error = "All AI providers failed"
              /\ n = Len(PriorityList)
              /\ \A i \in 1..n : req.outcome[req.order[i]] \in FailedOutcomes

\* a fallback has returned the result of the third provider after the two
\* before it failed
C5_Witness ==
  \E r \in Requests :
     /\ requests[r].kind = "single" /\ requests[r].pc = "done"
     /\ requests[r].result.error = "none"
     /\ Len(requests[r].order) = 3
     /\ requests[r].result.provider = "anthropic"

\* a callProvider for provider p starts in this step of request r
Starts(r, p) == requests[r].call[p] = "none" /\ requests'[r].call[p] # "none"

\* C6 (as claimed): a callProvider for a rate-limited provider that starts
\* when no other call to that provider is in flight is rejected with the
\* rate-limit error, without an API call, if LimitRequests requests to the
\* provider were already made in the current window, and is admitted
\* otherwise, in particular in a window in which no request was made yet.
C6_LimitPerWindow ==
  [][ \A r \in Requests : \A p \in RealProviders :
        ( /\ Starts(r, p) /\ requests'[r].promptOk
          /\ \A q \in Requests : requests[q].call[p] # "api" )
        => IF MapGet0(made, windowKey(p)) >= LimitRequests
           THEN /\ requests'[r].outcome[p] = "rate_limited"
                /\ MapGet0(admitted', windowKey(p)) = MapGet0(admitted, windowKey(p))
           ELSE requests'[r].call[p] = "api"
    ]_vars

\* C7 (as claimed): the number of API calls admitted to a provider within
\* one window never exceeds the configured limit.
C7_AdmittedWithinLimit ==
  \A k \in DOMAIN admitted : admitted[k] <= LimitRequests

(* ================== properties of MultiAIAEGESAnalyzer ================= *)

\* the positions of the analyses of providers that returned a verdict
SuccessfulProviders == {i \in 1..Len(aiAnalyses) : ~HasError(aiAnalyses[i].analysis)}

\* the positions of the verdicts that survive: returned, with a confidence
\* above zero
Survivors ==
  {i \in SuccessfulProviders : aiAnalyses[i].analysis.confidence_score > 0}

\* the sum of f[i] over the positions i of S
RECURSIVE SumOver(_, _)
SumOver(f, S) ==
  IF S = {} THEN 0
  ELSE LET i == CHOOSE j \in S : TRUE IN f[i] + SumOver(f, S \ {i})

\* the consensus equals the verdict at position i of aiAnalyses
EqualsVerdict(i) ==
  LET v == aiAnalyses[i].analysis
      a == consensus.aggregated_analysis
  IN /\ consensus.error = "none" /\ a # Null
     /\ a.confidence_score.num = v.confidence_score * a.confidence_score.den
     /\ a.risk_indicators.anomaly_score.num
          = v.risk_indicators.anomaly_score * a.risk_indicators.anomaly_score.den
     /\ a.risk_indicators.pattern_type = v.risk_indicators.pattern_type
     /\ consensus.consensus_strength.num = v.confidence_score
     /\ consensus.consensus_strength.den = v.confidence_score
     /\ a.contributing_providers
          = << [name |-> aiAnalyses[i].name, confidence |-> v.confidence_score,
                risk_score |-> v.risk_indicators.anomaly_score] >>

\* C8 (as claimed): with exactly one successful provider the consensus
\* equals that provider's verdict: risk score, confidence and pattern tag
\* unchanged, the solo voter winning with a weight equal to its confidence.
C8_SoloVerdict_AnyConfidence ==
  (consensus # Null /\ Cardinality(SuccessfulProviders) = 1) =>
     \A i \in SuccessfulProviders : EqualsVerdict(i)

\* C8 (amended): with exactly one successful provider whose confidence is
\* above zero, the consensus equals that provider's verdict: confidence and
\* pattern tag unchanged, risk score (risk * confidence) / confidence, the
\* solo voter winning with a weight equal to its confidence.
C8_SoloVerdict ==
  (consensus # Null /\ Cardinality(SuccessfulProviders) = 1) =>
     \A i \in SuccessfulProviders :
        aiAnalyses[i].analysis.confidence_score > 0 => EqualsVerdict(i)

\* a consensus of three providers of which two threw and one returned a
\* verdict of confidence 0.4
C8_Witness ==
  /\ consensus # Null /\ Len(aiAnalyses) = 3
  /\ Cardinality(SuccessfulProviders) = 1
  /\ \A i \in SuccessfulProviders : aiAnalyses[i].analysis.confidence_score = 40
  /\ consensus.error = "none"

\* C9: for every non-empty set of surviving verdicts the consensus risk
\* score is sum(risk_i * confidence_i) / sum(confidence_i), and it lies
\* between the least and the greatest risk of the survivors.
C9_WeightedMean ==
  (consensus # Null /\ Survivors # {}) =>
     LET risk == [i \in Survivors |-> aiAnalyses[i].analysis.risk_indicators.anomaly_score]
         conf == [i \in Survivors |-> aiAnalyses[i].analysis.confidence_score]
         prod == [i \in Survivors |-> risk[i] * conf[i]]
         score == consensus.aggregated_analysis.risk_indicators.anomaly_score
     IN /\ consensus.error = "none"
        /\ score.den > 0
        /\ score.num * SumOver(conf, Survivors) = SumOver(prod, Survivors) * score.den
        /\ \E i \in Survivors : risk[i] * score.den <= score.num
        /\ \E i \in Survivors : score.num <= risk[i] * score.den

\* a consensus of survivors that differ in risk and in confidence, with a
\* risk score strictly between theirs and off their plain average
C9_Witness ==
  /\ consensus # Null /\ consensus.error = "none"
  /\ \E i, j \in Survivors :
        /\ aiAnalyses[i].analysis.risk_indicators.anomaly_score = 10
        /\ aiAnalyses[j].analysis.risk_indicators.anomaly_score = 90
        /\ aiAnalyses[i].analysis.confidence_score = 40
        /\ aiAnalyses[j].analysis.confidence_score = 100
  /\ LET score == consensus.aggregated_analysis.risk_indicators.anomaly_score
     IN /\ 10 * score.den < score.num /\ score.num < 90 * score.den
        /\ score.num # 50 * score.den

\* the confidence weight of the surviving verdicts that carry the tag
WeightOfTag(tag) ==
  SumOver([i \in Survivors |-> aiAnalyses[i].analysis.confidence_score],
          {i \in Survivors : aiAnalyses[i].analysis.risk_indicators.pattern_type = tag})

\* MultiAIAEGESAnalyzer: consensus_reached is true if and only if the
\* winning tag's share of the total confidence weight is at least 0.6
MultiAI_AgreementRule ==
  (consensus # Null /\ Survivors # {}) =>
     LET tags == {aiAnalyses[i].analysis.risk_indicators.pattern_type : i \in Survivors}
         total == SumOver([i \in Survivors |-> aiAnalyses[i].analysis.confidence_score],
                          Survivors)
     IN /\ consensus.aggregated_analysis.risk_indicators.pattern_type \in tags
        /\ \A t \in tags :
              WeightOfTag(t) <= WeightOfTag(consensus.aggregated_analysis.risk_indicators.pattern_type)
        /\ consensus.consensus_reached
             <=> (WeightOfTag(consensus.aggregated_analysis.risk_indicators.pattern_type) * 10
                    >= total * 6)

\* the rule is met at the threshold itself: weights 0.6 and 0.4 on two tags
MultiAI_AgreementAtThreshold ==
  /\ consensus # Null /\ consensus.error = "none"
  /\ consensus.consensus_strength.num * 10 = consensus.consensus_strength.den * 6
  /\ consensus.consensus_reached

\* C10 (as claimed), for a parallel consensus of GrokAEGESIntegration with a
\* single survivor, whose share of the total weight is 1: the agreement
\* flag is true.
C10_AgreementFlag ==
  \A r \in Requests :
     ( /\ requests[r].kind = "consensus" /\ requests[r].pc = "done"
       /\ requests[r].result.error = "none"
       /\ Len(requests[r].result.providers) = 1
       /\ requests[r].result.providers[1] \in RealProviders )
     => requests[r].result.agreement

(* ============ properties of containment status and recovery ============ *)

\* the containment id names a containment that is active
IsActive(containmentId) ==
  /\ containmentId \in DOMAIN activeContainments
  /\ activeContainments[containmentId].status = "active"

\* this step is an initiateRecovery for the containment id
Files(containmentId) ==
  \E claimant \in Claimants, rnd \in Rnd : initiateRecovery(containmentId, claimant, rnd)

\* the ids of the active recoveries filed against the containment id
RecoveriesOf(containmentId) ==
  {rid \in DOMAIN activeRecoveries : activeRecoveries[rid].containment_id = containmentId}

\* C11 (as claimed): an initiateRecovery for a containment id that does not
\* name an active containment creates no RecoveryRequest and leaves the
\* recovery and containment stores unchanged.
C11_RecoveryNeedsActiveContainment ==
  [][ \A containmentId \in ContainmentIds :
        (Files(containmentId) /\ ~IsActive(containmentId)) =>
           /\ activeRecoveries' = activeRecoveries
           /\ recoveryHistory' = recoveryHistory
           /\ activeContainments' = activeContainments
           /\ containmentHistory' = containmentHistory
    ]_vars

\* C12 (as claimed): an initiateRecovery against an active containment moves
\* that containment's status from active to recovery_pending.
C12_RecoveryPending ==
  [][ \A containmentId \in ContainmentIds :
        (Files(containmentId) /\ IsActive(containmentId)) =>
           containmentHistory'[containmentId].status = "recovery_pending"
    ]_vars

\* the recoveries of both stores
AllRecoveries == MapValues(activeRecoveries) \cup MapValues(recoveryHistory)

\* the three verification checks of a recovery are completed
AllChecksCompleted(recovery) ==
  /\ recovery.verification_process.identity_verification = "completed"
  /\ recovery.verification_process.asset_ownership = "completed"
  /\ recovery.verification_process.legitimacy_check = "completed"

\* C13: a RecoveryRequest is approved or recovered only if its three
\* verification checks are completed and its approvals meet the approval
\* threshold; it is never approved or recovered while a check is failed,
\* pending or in progress.
C13_ApprovedOnlyWhenVerified ==
  \A recovery \in AllRecoveries :
     recovery.status \in {"approved", "recovered", "completed"} =>
        /\ AllChecksCompleted(recovery)
        /\ Len(recovery.required_consensus.current_approvals)
             >= recovery.required_consensus.approval_threshold

\* a recovery against an active containment after _progressRecovery: one
\* check completed, one in progress, one pending, no approval
C13_Witness ==
  \E recovery \in AllRecoveries :
     /\ IsActive(recovery.containment_id)
     /\ recovery.verification_process.legitimacy_check = "completed"
     /\ recovery.verification_process.identity_verification = "in_progress"
     /\ recovery.verification_process.asset_ownership = "pending"
     /\ recovery.required_consensus.current_approvals = << >>
     /\ recovery.status = "initiated"

\* C14 (as claimed): a containment against which no recovery was filed and
\* whose time since activation exceeds maxDuration is expired: it is not an
\* active containment and no status query reports it as active.
C14_ExpiresAfterMaxDuration ==
  \A id \in DOMAIN containmentHistory :
     ( /\ \A recovery \in AllRecoveries : recovery.containment_id # id
       /\ (now - containmentHistory[id].activation_time) * TickMs > maxDuration )
     => /\ containmentHistory[id].status = "expired"
        /\ id \notin DOMAIN activeContainments
        /\ \A result \in getContainmentStatus(id, NoId, NoId) : ~result.containment_active

\* C15 (as claimed): at most one active RecoveryRequest exists for a
\* containment id.
C15_SingleActiveRecovery ==
  \A containmentId \in ContainmentIds : Cardinality(RecoveriesOf(containmentId)) <= 1

\* the transaction id of the analysis a containment was activated for
TransactionOf(containment) ==
  IF containment.analysis_id \in DOMAIN analysisHistory
  THEN analysisHistory[containment.analysis_id].transaction_id
  ELSE NoId

\* C16 (as claimed): no two active containments stem from the same analysis
\* or from the same transaction.
C16_SingleLiveContainment ==
  \A i, j \in DOMAIN activeContainments :
     i # j =>
        /\ activeContainments[i].analysis_id # activeContainments[j].analysis_id
        /\ TransactionOf(activeContainments[i]) = NoId
             \/ TransactionOf(activeContainments[i]) # TransactionOf(activeContainments[j])

\* this step records a newly activated containment under the id
RecordsUnder(id) ==
  \E p \in Calls :
     /\ calls[p].pc = "propagating" /\ calls'[p].pc # "propagating"
     /\ calls[p].containment.containment_id = id

C18_StatusIdempotent ==
  \A id \in DOMAIN activeContainments :
     Cardinality(getContainmentStatus(id, NoId, NoId)) = 1

\* the wallet addresses of the transactions with the transaction id
WalletsOf(transactionId) ==
  {wallet_address(tx) : tx \in {t \in Transactions : transaction_id(t) = transactionId}}

\* C19 (as claimed): an active containment that processTransaction created
\* is reported as active by the lookup by containment id, by the lookup by
\* transaction id and by the lookup by wallet address.
C19_LookupByAnyIdentifier ==
  \A id \in DOMAIN activeContainments :
     (IsActive(id) /\ TransactionOf(activeContainments[id]) # NoId) =>
        /\ \A result \in getContainmentStatus(id, NoId, NoId) : result.containment_active
        /\ \A result \in getContainmentStatus(NoId, TransactionOf(activeContainments[id]), NoId) :
              result.containment_active
        /\ \A wallet \in WalletsOf(TransactionOf(activeContainments[id])) :
              \A result \in getContainmentStatus(NoId, NoId, wallet) : result.containment_active

\* the step in which processTransaction returns the containment it activated
ReturnsContained(p) ==
  /\ calls[p].pc = "contained" /\ calls'[p].pc = "done"

\* each activation by processTransaction emits exactly one
\* containment.activated event, which carries the containment's id
ActivationEmitsEvent ==
  [][ \A p \in Calls :
        IF ReturnsContained(p)
        THEN /\ Len(eventHistory') = Len(eventHistory) + 1
             /\ eventHistory'[Len(eventHistory')].type = "containment.activated"
             /\ eventHistory'[Len(eventHistory')].payload.containment_id
                  = calls'[p].result.containment.containment_id
        ELSE (calls'[p] # calls[p]) =>
                \/ eventHistory' = eventHistory
                \/ eventHistory'[Len(eventHistory')].type # "containment.activated"
    ]_vars

\* C20 (as claimed): each activation by processTransaction emits exactly one
\* containment.activated event carrying the containment's id, and filing a
\* recovery against an active containment emits an event.
C20_TransitionsEmitEvents ==
  [][ /\ \A p \in Calls :
            ReturnsContained(p) =>
               /\ Len(eventHistory') = Len(eventHistory) + 1
               /\ eventHistory'[Len(eventHistory')].type = "containment.activated"
               /\ eventHistory'[Len(eventHistory')].payload.containment_id
                    = calls'[p].result.containment.containment_id
      /\ \A containmentId \in ContainmentIds :
            (Files(containmentId) /\ IsActive(containmentId)) =>
               Len(eventHistory') = Len(eventHistory) + 1
    ]_vars

(* ============ properties of subscribers and concurrent calls =========== *)

\* call p emits the containment.activated event of its containment
EmitsActivation(p) == calls[p].pc = "contained" /\ Steps(p)

\* the handlers of containment.activated that stand after a throwing one
AfterThrowing ==
  LET handlers == handlersOf("containment.activated") IN
  {i \in 1..Len(handlers) : \E j \in 1..(i - 1) : handlers[j] = "throws"}

\* emit is best-effort towards handlers that throw: when no handler of
\* containment.activated fails to return, the call returns its decision with
\* the containment, the containment stays recorded as active, and every
\* handler of the event is called once, those after a throwing one included
EmitCatchesThrow ==
  [][ \A p \in Slots :
        (EmitsActivation(p) /\ emitReturns(handlersOf("containment.activated"))) =>
          /\ calls'[p].pc = "done"
          /\ calls'[p].result.action_taken = "contained"
          /\ calls'[p].result.containment = calls[p].containment
          /\ calls[p].containment.containment_id \in DOMAIN activeContainments'
          /\ handled' \ handled =
               {<<Len(eventHistory'), i>> :
                  i \in 1..Len(handlersOf("containment.activated"))}
    ]_vars

\* C21: a failing or unavailable subscriber never blocks a containment
\* decision.  Whatever the registered handlers of containment.activated do,
\* throw or not return, the step of processTransaction that emits the event
\* returns the decision with the containment, the containment stays
\* recorded as active, and the handlers after a throwing handler are called.
C21_SubscriberNeverBlocks ==
  [][ \A p \in Slots :
        EmitsActivation(p) =>
          /\ calls'[p].pc = "done"
          /\ calls'[p].result.action_taken = "contained"
          /\ calls'[p].result.containment = calls[p].containment
          /\ calls[p].containment.containment_id \in DOMAIN activeContainments'
          /\ \A i \in AfterThrowing : <<Len(eventHistory'), i>> \in handled'
    ]_vars

\* a call is held in emit by a handler that does not return, its
\* containment recorded and its decision not returned
C21_HeldInHandler ==
  \E p \in Slots : /\ calls[p].pc = "in_handler"
                   /\ calls[p].containment # Null
                   /\ calls[p].containment.containment_id \in DOMAIN activeContainments
                   /\ calls[p].result = Null

\* C22: network propagation is fire-and-forget.  activateContainment
\* records the Containment as active without waiting for the propagation:
\* while a call awaits _simulateNetworkPropagation its Containment is
\* already stored in activeContainments with status 'active'.
C22_PropagationNotAwaited ==
  \A p \in Slots :
    calls[p].pc = "propagating" =>
      LET id == calls[p].containment.containment_id IN
      /\ id \in DOMAIN activeContainments
      /\ activeContainments[id].status = "active"
      /\ activeContainments[id].analysis_id = calls[p].analysisId

\* the analyzeTransaction of call p completes and returns its analysis
Completes(p) == calls[p].pc = "analyzing" /\ calls'[p].pc = "analyzed"

\* what every step keeps of the analysis history: no step removes a record,
\* only a completing analyzeTransaction writes, and it writes one record,
\* its own analysis under the generated id
HistoryWrittenByCompletionOnly ==
  [][ /\ DOMAIN analysisHistory \subseteq DOMAIN analysisHistory'
      /\ \A p \in Slots :
           Completes(p) =>
             analysisHistory' =
               MapSet(analysisHistory, calls'[p].analysis.analysis_id, calls'[p].analysis)
      /\ (\A p \in Slots : ~Completes(p)) => analysisHistory' = analysisHistory
    ]_vars

\* C23: the analysis history is append-only and safe under concurrent
\* analyses.  Every analyzeTransaction that completes adds exactly one
\* record, under an analysis id that was not in the history before, and no
\* step of any interleaving overwrites, removes or changes a record that
\* is in the history.
C23_HistoryAppendOnly ==
  [][ /\ \A id \in DOMAIN analysisHistory :
           id \in DOMAIN analysisHistory' /\ analysisHistory'[id] = analysisHistory[id]
      /\ \A p \in Slots :
           Completes(p) =>
             /\ calls'[p].analysis.analysis_id \notin DOMAIN analysisHistory
             /\ analysisHistory' =
                  MapSet(analysisHistory, calls'[p].analysis.analysis_id, calls'[p].analysis)
             /\ Cardinality(DOMAIN analysisHistory') =
                  Cardinality(DOMAIN analysisHistory) + 1
      /\ (\A p \in Slots : ~Completes(p)) => analysisHistory' = analysisHistory
    ]_vars

\* two calls have completed their analyses and the history holds one record
C23_RecordReplaced ==
  /\ \A p \in Slots : calls[p].analysis # Null
  /\ Cardinality(DOMAIN analysisHistory) < MaxConcurrent

(* ============== properties of validation and provider results ========== *)

\* request r is made: analyzeTransactionWithAI is called
Called(r) == requests[r].pc = "idle" /\ requests'[r].pc # "idle"

\* the errors of InputValidator
ValidationErrors == {"Invalid transaction data", "Prompt too long"}

\* what holds of every request whose input fails a validation: no API call
\* and no mock analysis is started and no rate-limit counter changes; a
\* transaction that validateTransactionData rejects is answered at once
\* with that error
ValidationFailureCallsNoApi ==
  [][ \A r \in Requests :
        (Called(r) /\ (~requests'[r].dataOk \/ ~requests'[r].promptOk)) =>
          /\ requests'[r].pc = "done"
          /\ \A p \in ProviderNames : requests'[r].call[p] \in {"none", "thrown"}
          /\ windows' = windows /\ made' = made /\ admitted' = admitted
          /\ ~requests'[r].dataOk =>
               /\ requests'[r].result.error = "Invalid transaction data"
               /\ requests'[r].order = << >>
    ]_vars

\* C24: a validation error is surfaced immediately and never retried.  When
\* the input of analyzeTransactionWithAI fails a validation, of the
\* transaction data or of the prompt, the call ends at once with the
\* validation error, callProvider has been attempted for no provider (no
\* fallback attempt) and no rate-limit counter has changed.
C24_ValidationNotRetried ==
  [][ \A r \in Requests :
        (Called(r) /\ (~requests'[r].dataOk \/ ~requests'[r].promptOk)) =>
          /\ requests'[r].pc = "done"
          /\ requests'[r].result.error \in ValidationErrors
          /\ requests'[r].order = << >>
          /\ windows' = windows /\ made' = made /\ admitted' = admitted
    ]_vars

\* a request with a prompt that fails validatePrompt has gone through the
\* providers one after the other
C24_PromptRetried ==
  \E r \in Requests : /\ requests[r].dataOk /\ ~requests[r].promptOk
                       /\ Len(requests[r].order) > 1
                       /\ requests[r].result = [error |-> "All AI providers failed"]

\* the parallel consensus of request r is under way
Joining(r) == requests[r].kind = "consensus" /\ requests[r].pc = "running"

C26_UniformVerdict ==
  \A r \in Requests : \A p \in ProviderNames :
    requests[r].call[p] = "returned" =>
      LET result == requests[r].response[p] IN
      /\ result.provider = p
      /\ result.model # "undefined"
      /\ result.confidence # NaN
      /\ result.confidence >= 0 /\ result.confidence <= 100

\* the results of the real providers have the fields of the verdict
RealProvidersUniform ==
  \A r \in Requests : \A p \in ProviderNames \ {"mock"} :
    requests[r].call[p] = "returned" =>
      LET result == requests[r].response[p] IN
      /\ result.provider = p
      /\ result.model # "undefined"
      /\ result.confidence >= 50 /\ result.confidence <= 95

(* ================== properties of ConfigurationManager ================= *)

\* the key with its i-th character replaced by another one
Flip(key, i) == [key EXCEPT ![i] = CHOOSE c \in KeyChars : c # key[i]]

\* the masked value hides a character of the key: a key that differs in
\* that character has the same masked value
HidesACharacter(key, masked) ==
  \E i \in 1..Len(key) : maskAPIKey(Flip(key, i)) = masked

\* C27: provider credentials never appear in externally visible output.
\* For every configured API key the value that getSecureConfig exposes does
\* not contain the complete key and does not allow reconstructing it: some
\* character of the key cannot be told from the exposed value.
C27_KeyNotExposed ==
  secureConfig # Null =>
    \A provider \in DOMAIN apiKeys :
      apiKeys[provider] # NoKey =>
        /\ ~includes(secureConfig.apiKeys[provider], apiKeys[provider])
        /\ HidesACharacter(apiKeys[provider], secureConfig.apiKeys[provider])

\* a key of more than 12 characters is not contained in the exposed value
\* and at least one of its characters is hidden
LongKeysMasked ==
  secureConfig # Null =>
    \A provider \in DOMAIN apiKeys :
      Len(apiKeys[provider]) > 12 =>
        /\ ~includes(secureConfig.apiKeys[provider], apiKeys[provider])
        /\ HidesACharacter(apiKeys[provider], secureConfig.apiKeys[provider])

\* a key of 12 characters has been exposed with every character shown
C27_KeyShown ==
  /\ secureConfig # Null
  /\ Len(apiKeys.xai) = 12
  /\ secureConfig.apiKeys.xai =
       SubSeq(apiKeys.xai, 1, 8) \o <<".", ".", ".">> \o SubSeq(apiKeys.xai, 9, 12)

(* ============= properties of the functions of the analyzer ============= *)

\* the function whose value is in assessed
Applied(fn) == assessed # Null /\ assessed.fn = fn

\* C28: for every valid transaction, whatever its amount, account age and
\* prior transaction count, with or without history context, the base risk
\* lies in [0.1, 0.95].
C28_BaseRiskInRange ==
  Applied("_calculateBaseRisk") => assessed.risk >= 10 /\ assessed.risk <= 95

\* the base risk of a large transaction of a new account without prior
\* transactions: the tiers add up to 1.1 and the result is 0.95
C28_Witness ==
  /\ Applied("_calculateBaseRisk")
  /\ assessed.data.amount > 1000000
  /\ assessed.data.account_age_days = 0
  /\ assessed.data.previous_transactions = 0
  /\ assessed.risk = 95

\* the order low < medium < high < critical
Rank(level) ==
  CASE level = "low" -> 1 [] level = "medium" -> 2
    [] level = "high" -> 3 [] level = "critical" -> 4

\* C29: classifyThreatLevel is total and monotonic non-decreasing over the
\* scores of [0,1]: low for [0,0.4), medium for [0.4,0.6), high for
\* [0.6,0.8), critical for [0.8,1], and no lower score has a higher level.
C29_ThreatLevelMonotonic ==
  Applied("_calculateThreatLevel") =>
    /\ assessed.threat_level =
         (IF assessed.score < 400 THEN "low"
          ELSE IF assessed.score < 600 THEN "medium"
          ELSE IF assessed.score < 800 THEN "high"
          ELSE "critical")
    /\ \A s \in Scores :
         s <= assessed.score =>
           Rank(_calculateThreatLevel(s * 100)) <= Rank(assessed.threat_level)

\* the score 0.6, the lower end of the range of high, is classified high
C29_Witness ==
  /\ Applied("_calculateThreatLevel")
  /\ assessed.score = 600
  /\ assessed.threat_level = "high"

\* C30: decideAction is total and deterministic: critical and high map to
\* contain, medium to monitor, low to allow; the action is a function of
\* the level alone.
C30_ActionOfLevel ==
  Applied("_determineAction") =>
    /\ assessed.threat_level \in {"critical", "high"} =>
         assessed.recommended_action = "contain"
    /\ assessed.threat_level = "medium" => assessed.recommended_action = "monitor"
    /\ assessed.threat_level = "low" => assessed.recommended_action = "allow"
    /\ assessed.recommended_action \in {"contain", "monitor", "allow"}

\* the action of the level high has been decided
C30_Witness ==
  /\ Applied("_determineAction")
  /\ assessed.threat_level = "high"
  /\ assessed.recommended_action = "contain"

\* C31: integrateConsensus computes final = base*(1-w) + consensus.risk*w
\* with w = consensus.confidence * 0.4 for every confidence in [0,1]: a
\* confidence of 0 leaves the base score unchanged, the AI contributes at
\* most 40%, and the result lies in [0,1].
C31_WeightedByConfidence ==
  Applied("_integrateExternalAI") =>
    LET w == assessed.externalAI.confidence_score * 4
        risk == assessed.externalAI.risk_indicators.anomaly_score
    IN /\ assessed.enhancedRisk = assessed.baseRisk * (1000 - w) + risk * w
       /\ w <= 400
       /\ assessed.externalAI.confidence_score = 0 =>
            assessed.enhancedRisk = assessed.baseRisk * 1000
       /\ assessed.enhancedRisk >= 0 /\ assessed.enhancedRisk <= 100000

\* for every confidence above 0 the result is the weighted sum with
\* w = confidence * 0.4, and for every confidence it lies in [0,1]
WeightedByPositiveConfidence ==
  Applied("_integrateExternalAI") =>
    LET w == assessed.externalAI.confidence_score * 4
        risk == assessed.externalAI.risk_indicators.anomaly_score
    IN /\ assessed.externalAI.confidence_score > 0 =>
            assessed.enhancedRisk = assessed.baseRisk * (1000 - w) + risk * w
       /\ assessed.enhancedRisk >= 0 /\ assessed.enhancedRisk <= 100000

\* an analysis of confidence 0 has moved the base risk 0.1 to 0.26: it was
\* weighted as an analysis of confidence 0.5
C31_ZeroConfidenceWeighted ==
  /\ Applied("_integrateExternalAI")
  /\ assessed.externalAI.confidence_score = 0
  /\ assessed.externalAI.risk_indicators.anomaly_score = 90
  /\ assessed.baseRisk = 10
  /\ assessed.enhancedRisk = 26000

(* ================ properties of the pattern votes ================ *)

\* the verdicts that take part in the aggregation, in provider order: those
\* without error and with a confidence above 0
Aggregated == validAnalysesOf(aiAnalyses)

\* the summed confidence of the first n aggregated verdicts that name the tag
RECURSIVE SummedConfidence(_, _)
SummedConfidence(tag, n) ==
  IF n = 0 THEN 0
  ELSE SummedConfidence(tag, n - 1)
         + (IF Aggregated[n].analysis.risk_indicators.pattern_type = tag
            THEN Aggregated[n].analysis.confidence_score ELSE 0)

\* the tags named by the aggregated verdicts
NamedTags ==
  {Aggregated[i].analysis.risk_indicators.pattern_type : i \in 1..Len(Aggregated)}

\* the position in provider order of the first aggregated verdict naming the tag
FirstSeen(tag) ==
  CHOOSE i \in 1..Len(Aggregated) :
    /\ Aggregated[i].analysis.risk_indicators.pattern_type = tag
    /\ \A j \in 1..(i - 1) :
         Aggregated[j].analysis.risk_indicators.pattern_type # tag

\* C32: in consensus aggregation the pattern tags vote by confidence weight:
\* the winning tag is the one with the greatest summed confidence of the
\* verdicts naming it, and of several tags with the same greatest weight
\* the one first seen in provider order wins.
C32_WinningTag ==
  (consensus # Null /\ consensus.error = "none") =>
    LET winner == consensus.aggregated_analysis.risk_indicators.pattern_type
        n == Len(Aggregated)
    IN /\ winner \in NamedTags
       /\ \A tag \in NamedTags :
            /\ SummedConfidence(tag, n) <= SummedConfidence(winner, n)
            /\ SummedConfidence(tag, n) = SummedConfidence(winner, n) =>
                 FirstSeen(winner) <= FirstSeen(tag)

\* two tags have the same summed confidence, the first of them named by the
\* first provider and the other by two later ones, and the first has won
C32_Witness ==
  /\ consensus # Null /\ consensus.error = "none"
  /\ Len(Aggregated) = 3
  /\ Aggregated[1].analysis.risk_indicators.pattern_type = "normal_activity"
  /\ Aggregated[1].analysis.confidence_score = 100
  /\ Aggregated[2].analysis.risk_indicators.pattern_type = "flash_drain"
  /\ Aggregated[2].analysis.confidence_score = 40
  /\ Aggregated[3].analysis.risk_indicators.pattern_type = "flash_drain"
  /\ Aggregated[3].analysis.confidence_score = 60
  /\ consensus.aggregated_analysis.risk_indicators.pattern_type = "normal_activity"

(* ============ properties of the velocity check and of validation ============ *)

\* the transaction has a history context with account age and total volume
HasHistory(data) ==
  data.account_age_days # undefined /\ data.total_volume # undefined

\* C33: checkVelocityAnomaly returns true exactly when the current amount
\* exceeds 10 times the account's historical volume and the account age is
\* below 30 days, for every account age including 0 days and every
\* historical volume including 0.
C33_VelocityAnomalyExact ==
  (Applied("_checkVelocityAnomaly") /\ HasHistory(assessed.data)) =>
    (assessed.velocity_anomaly <=>
       (/\ assessed.data.amount > 10 * assessed.data.total_volume
        /\ assessed.data.account_age_days < 30))

\* the result is exact for every account age above 0 and every volume above 0
VelocityAnomalyExactAboveZero ==
  (/\ Applied("_checkVelocityAnomaly") /\ HasHistory(assessed.data)
   /\ assessed.data.account_age_days > 0 /\ assessed.data.total_volume > 0) =>
    (assessed.velocity_anomaly <=>
       (/\ assessed.data.amount > 10 * assessed.data.total_volume
        /\ assessed.data.account_age_days < 30))

\* an account of 0 days sends 50 times its historical volume and the check
\* returns false
C33_NewAccountMissed ==
  /\ Applied("_checkVelocityAnomaly")
  /\ assessed.data.account_age_days = 0
  /\ assessed.data.total_volume = 1000
  /\ assessed.data.amount = 50000
  /\ ~assessed.velocity_anomaly

\* the required fields of the record are present
RequiredPresent(data) ==
  /\ data.id /\ data.timestamp /\ data.from /\ data.to
  /\ data.amount.type # "undefined"

\* C34: input validation accepts every transaction record whose required
\* fields (id, amount, timestamp, from, to) are present and whose amount is
\* a non-negative number (every amount >= 0), and rejects the records whose
\* amount is negative or not a number.
C34_AcceptsNonNegative ==
  Applied("validateTransactionData") =>
    LET amount == assessed.data.amount IN
    /\ (/\ RequiredPresent(assessed.data)
        /\ amount.type = "number" /\ amount.value >= 0)
          => assessed.result.error = "none"
    /\ (amount.type # "number" \/ amount.value < 0)
          => assessed.result.error # "none"

\* every record with the required fields and an amount above 0 is accepted
\* and every record whose amount is negative or not a number is rejected
AcceptsPositive ==
  Applied("validateTransactionData") =>
    LET amount == assessed.data.amount IN
    /\ (/\ RequiredPresent(assessed.data)
        /\ amount.type = "number" /\ amount.value > 0)
          => assessed.result.error = "none"
    /\ (amount.type # "number" \/ amount.value < 0)
          => assessed.result.error # "none"

\* a record with every required field and the amount 0 has been rejected
\* for a missing amount
C34_ZeroRejected ==
  /\ Applied("validateTransactionData")
  /\ RequiredPresent(assessed.data)
  /\ assessed.data.amount = [type |-> "number", value |-> 0]
  /\ assessed.result = [error |-> "Missing required field", field |-> "amount"]

(* ================= properties of the in-flight counter ================= *)

\* the calls of analyzeTransaction that have started and not yet finished
InFlight == {p \in Slots : calls[p].pc = "analyzing"}

\* C35: the in-flight counter of the analyzer is exact under concurrency:
\* at every moment activeAnalyses equals the number of analyzeTransaction
\* calls that have started and not yet finished, it is never negative, and
\* it is 0 once all calls have completed, whether they succeeded or threw.
C35_InFlightExact ==
  /\ activeAnalyses = Cardinality(InFlight)
  /\ activeAnalyses >= 0
  /\ (InFlight = {}) => activeAnalyses = 0

\* one analyzeTransaction has thrown while another one was and still is
\* under way
C35_Witness ==
  \E p, q \in Slots :
    /\ calls[p].pc = "done" /\ calls[p].result.error = "TypeError"
    /\ calls[q].pc = "analyzing"
    /\ activeAnalyses = 1

(* ================ properties of the end of a recovery ================ *)

\* the terminal states of a RecoveryRequest
TerminalStates == {"approved", "rejected", "expired"}

\* C36: every RecoveryRequest that is filed eventually reaches one of its
\* terminal states (approved, rejected or expired); it does not remain in
\* a non-terminal state forever.
C36_RecoveryTerminates ==
  \A recoveryId \in RecoveryIds :
    (recoveryId \in DOMAIN recoveryHistory)
      ~> (/\ recoveryId \in DOMAIN recoveryHistory
          /\ recoveryHistory[recoveryId].status \in TerminalStates)

\* every RecoveryRequest on record has the status it was filed with
RecoveryStaysInitiated ==
  \A recoveryId \in DOMAIN recoveryHistory :
    /\ recoveryHistory[recoveryId].status = "initiated"
    /\ recoveryId \in DOMAIN activeRecoveries

\* a RecoveryRequest filed against a containment on record has been
\* progressed by its timer and is still active with status 'initiated'
C36_ProgressedNotEnded ==
  \E recoveryId \in DOMAIN activeRecoveries :
    /\ recoveryId \notin timers
    /\ activeRecoveries[recoveryId].containment_id \in DOMAIN containmentHistory
    /\ activeRecoveries[recoveryId].verification_process.legitimacy_check = "completed"
    /\ activeRecoveries[recoveryId].status = "initiated"

(* ============ properties of the approval requirements ============ *)

\* the RecoveryRequests on record that are filed against a Containment on record
FiledAgainstContainment ==
  {recoveryId \in DOMAIN recoveryHistory :
     recoveryHistory[recoveryId].containment_id \in DOMAIN containmentHistory}

\* the recovery protocol of the Containment the request is filed against
ProtocolOf(recoveryId) ==
  containmentHistory[recoveryHistory[recoveryId].containment_id].recovery_protocols

\* the approval requirement of the request equals the protocol
AgreesWithProtocol(recoveryId) ==
  LET requirement == recoveryHistory[recoveryId].required_consensus
      protocol == ProtocolOf(recoveryId)
  IN /\ requirement.approval_threshold = protocol.approval_threshold
     /\ Len(requirement.required_stakeholders) = protocol.stakeholder_count

\* neither threshold exceeds its number of stakeholders
ThresholdWithinStakeholders(recoveryId) ==
  LET requirement == recoveryHistory[recoveryId].required_consensus
      protocol == ProtocolOf(recoveryId)
  IN /\ requirement.approval_threshold <= Len(requirement.required_stakeholders)
     /\ protocol.approval_threshold <= protocol.stakeholder_count

\* C37: the approval requirement of a RecoveryRequest agrees with the
\* recovery protocol of the Containment it is filed against: for every
\* severity the request's approval threshold and stakeholder count equal
\* the approval_threshold and stakeholder_count generated for that
\* Containment, and the threshold never exceeds the number of stakeholders.
C37_RequirementAgrees ==
  \A recoveryId \in FiledAgainstContainment :
    AgreesWithProtocol(recoveryId) /\ ThresholdWithinStakeholders(recoveryId)

\* the requirement agrees with the protocol of a Containment of severity
\* high, and no threshold exceeds its number of stakeholders
AgreesForHigh ==
  \A recoveryId \in FiledAgainstContainment :
    /\ ThresholdWithinStakeholders(recoveryId)
    /\ containmentHistory[recoveryHistory[recoveryId].containment_id].severity_level
          = "high" => AgreesWithProtocol(recoveryId)

\* a request that needs 2 approvals of 3 stakeholders is filed against a
\* critical Containment whose protocol needs 3 approvals of 5
C37_CriticalDisagrees ==
  \E recoveryId \in FiledAgainstContainment :
    /\ containmentHistory[recoveryHistory[recoveryId].containment_id].severity_level
          = "critical"
    /\ ProtocolOf(recoveryId).stakeholder_count = 5
    /\ ProtocolOf(recoveryId).approval_threshold = 3
    /\ recoveryHistory[recoveryId].required_consensus.approval_threshold = 2
    /\ Len(recoveryHistory[recoveryId].required_consensus.required_stakeholders) = 3

(* ================ properties of the events delivered ================ *)

\* the events of a type that were emitted to the subscribers
EventsOfType(eventType) ==
  {i \in 1..Len(eventHistory) : eventHistory[i].type = eventType}

\* the containment.activated event was emitted by _startEventSimulation:
\* its payload has no analysis_id
Simulated(payload) == "analysis_id" \notin DOMAIN payload

\* C38: every containment.activated event delivered to the subscribers of
\* the event bus carries the id of a Containment that exists in the
\* containment engine's history; simulated event traffic never produces a
\* containment or recovery event for an entity that does not exist.
C38_EventsNameExistingEntities ==
  /\ \A i \in EventsOfType("containment.activated") :
       eventHistory[i].payload.containment_id \in DOMAIN containmentHistory
  /\ \A i \in EventsOfType("recovery.completed") :
       eventHistory[i].payload.recovery_id \in DOMAIN recoveryHistory

\* the containment.activated events that processTransaction emits carry the
\* id of a Containment in the history
EmittedByProcessTransactionExist ==
  \A i \in EventsOfType("containment.activated") :
    \/ Simulated(eventHistory[i].payload)
    \/ eventHistory[i].payload.containment_id \in DOMAIN containmentHistory

\* a simulated containment.activated event was emitted while the
\* containment engine has no Containment at all
C38_SimulatedContainmentEvent ==
  /\ containmentHistory = EmptyMap
  /\ \E i \in EventsOfType("containment.activated") :
       Simulated(eventHistory[i].payload)

(* ============== properties of the reported assessment ============== *)

\* the classification of a score in hundredths with the boundaries
\* 0.4 / 0.6 / 0.8
LevelOfScore(score) ==
  IF score >= 80 THEN "critical"
  ELSE IF score >= 60 THEN "high"
  ELSE IF score >= 40 THEN "medium"
  ELSE "low"

\* the action for a threat level
ActionOfLevel(level) ==
  CASE level \in {"critical", "high"} -> "contain"
    [] level = "medium" -> "monitor"
    [] OTHER -> "allow"

\* C39: in every RiskAssessment the reported threat_level is the
\* classification of the reported behavioral_score: classifying the
\* two-decimal rounded behavioral_score with the boundaries 0.4 / 0.6 / 0.8
\* always gives the reported threat_level, and the recommended action is
\* the action for that level.
C39_LevelOfReportedScore ==
  Applied("_performRiskAssessment") =>
    LET level == LevelOfScore(assessed.risk_assessment.behavioral_score) IN
    /\ assessed.risk_assessment.threat_level = level
    /\ assessed.recommended_action = ActionOfLevel(level)

\* without an external analysis the reported level is the classification
\* of the reported score, and in every assessment the recommended action is
\* the action for the reported level
LevelOfReportedScoreWithoutAI ==
  Applied("_performRiskAssessment") =>
    /\ assessed.externalAI = Null =>
         assessed.risk_assessment.threat_level =
           LevelOfScore(assessed.risk_assessment.behavioral_score)
    /\ assessed.recommended_action =
         ActionOfLevel(assessed.risk_assessment.threat_level)

\* an assessment reports the score 0.60 with the level medium and the
\* action monitor: the score before rounding was below 0.6
C39_RoundedAcrossBoundary ==
  /\ Applied("_performRiskAssessment")
  /\ assessed.risk_assessment.behavioral_score = 60
  /\ assessed.risk_assessment.threat_level = "medium"
  /\ assessed.recommended_action = "monitor"

(* ================ properties of the mock as last resort ================ *)

\* the sequential fallbacks that were called with a valid prompt
ValidFallbacks ==
  {r \in Requests : requests[r].kind = "single" /\ requests[r].promptOk}

\* mockAnalysis answers request r
MockAnswers(r) ==
  requests[r].call["mock"] = "mock" /\ requests'[r].call["mock"] = "returned"

\* a sequential fallback with a valid prompt has mock as the last provider
\* of its list, does not end with an error, and once every real provider of
\* its list has thrown its mock call is under way or has answered
EndsInSuccess ==
  \A r \in ValidFallbacks :
    LET req == requests[r] IN
    /\ req.providers # << >> /\ req.providers[Len(req.providers)] = "mock"
    /\ req.pc = "done" => req.result.error = "none"
    /\ (\A p \in Range(req.providers) \ {"mock"} : req.call[p] = "thrown")
         => req.call["mock"] \in {"mock", "returned"}

\* no window of the rate limiter belongs to mock and no request of mock is
\* counted
NoMockBudget ==
  \A k \in DOMAIN windows \cup DOMAIN made \cup DOMAIN admitted : k[1] # "mock"

\* C40: because the mock provider is always enabled, last in the fallback
\* order and exempt from rate limiting, sequential fallback with a valid
\* prompt always ends in success: performSingleProviderAnalysis never fails
\* with the all-providers-failed error, whatever the real providers do
\* (fail, time out, or are rate limited), and mock calls never consume any
\* provider's rate-limit budget.
C40_MockLastResort ==
  /\ [](EndsInSuccess /\ NoMockBudget)
  /\ [][ \A r \in Requests :
           MockAnswers(r) => UNCHANGED <<windows, made, admitted>> ]_vars

\* a sequential fallback with a valid prompt found one real provider rate
\* limited and another one failing, and has returned the answer of mock
C40_Witness ==
  \E r \in ValidFallbacks : \E p, q \in RealProviders :
    /\ requests[r].outcome[p] = "rate_limited"
    /\ requests[r].outcome[q] = "failed"
    /\ requests[r].call["mock"] = "returned"
    /\ requests[r].pc = "done"
    /\ requests[r].result.error = "none"

====
